---- MODULE Spec2Model ----
(***************************************************************************)
(* Verification model of the underwater image backend:                     *)
(*   - ThreatDetectionService  (backend/app/services/                      *)
(*     threat_detection_service.py)                                        *)
(*   - the detection routes and the batch pattern analysis                 *)
(*     (backend/app/api/routes/detection.py)                               *)
(*   - the unified route (backend/app/api/routes/unified.py) with the      *)
(*     file naming of ImageEnhancementService._enhance_image_sync          *)
(*                                                                         *)
(*   - the batch enhancement route (sih/backend/app/api/routes/            *)
(*     enhancement.py)                                                     *)
(*                                                                         *)
(* Spec is the server with one connection, SpecConc the single-image and   *)
(* analysis routes on two concurrent connections with a smaller set of     *)
(* uploads, SpecAnalyze the pattern analysis and SpecSummary the threat    *)
(* summary applied to every detection list up to MaxDets.                  *)
(*                                                                         *)
(* Confidences are integers in hundredths (0.89 is 89).  Python dicts are  *)
(* sequences of <<key, value>> pairs in insertion order, because the code  *)
(* depends on that order (max over dict.items()).  A missing dictionary    *)
(* key is a field that is absent from the record's DOMAIN.                 *)
(***************************************************************************)
EXTENDS Integers, Sequences, FiniteSets, TLC

VARIABLES
    model,      \* self.model of each ThreatDetectionService instance
    is_loaded,  \* self.is_loaded of each ThreatDetectionService instance
    enh_is_loaded, \* is_loaded of each ImageEnhancementService instance
    clock,      \* datetime.now() in whole seconds
    disk,       \* the files under uploads/ and enhanced/: path -> content
    writers,    \* for each path, the invocations that wrote it (history)
    req,        \* the requests in flight, one per connection slot
    dets,       \* analysis harness: the argument of analyze_threat_patterns_sync
    report,     \* analysis harness: its return value
    summary,    \* summary harness: the return value of _calculate_threat_summary
    buffer,     \* enhancement harness: the image handed to _prototype_enhancement
    run,        \* enhancement harness: the stage calls made and the result
    pair,       \* metrics harness: the two files handed to calculate_metrics
    measured,   \* metrics harness: its return value
    params,     \* parameter harness: the fields of a /detect request and
                \* the arguments the route passed to the detector
    download    \* download harness: the download id, the time and the
                \* statuses reported for it

svars == <<model, is_loaded, enh_is_loaded, clock, disk, writers, req>>
avars == <<dets, report, summary, buffer, run, pair, measured, params,
          download>>
vars == <<model, is_loaded, enh_is_loaded, clock, disk, writers, req,
          dets, report, summary, buffer, run, pair, measured, params,
          download>>

(***************************************************************************)
(* Bounds of the model                                                     *)
(***************************************************************************)
MaxDets == 3        \* longest detection list handed to the pattern analysis
MaxFiles == 2       \* most files in one analyze_threats batch
MaxClock == 1       \* the clock stops ticking after this many seconds
MaxPixels == 2      \* most pixels of an image handed to the enhancement
MaxElapsed == 42    \* seconds for which a download is followed

(***************************************************************************)
(* Python dict helpers (insertion ordered)                                 *)
(***************************************************************************)
EmptyDict == <<>>

DictKeys(d) == {d[i][1] : i \in DOMAIN d}

DictHas(d, k) == \E i \in DOMAIN d : d[i][1] = k

\* dict.get(k, default)
DictGet(d, k, default) ==
    IF DictHas(d, k) THEN d[CHOOSE i \in DOMAIN d : d[i][1] = k][2] ELSE default

\* d[k] = v : an existing key keeps its position, a new key is appended
DictSet(d, k, v) ==
    IF DictHas(d, k)
    THEN [i \in DOMAIN d |-> IF d[i][1] = k THEN <<k, v>> ELSE d[i]]
    ELSE Append(d, <<k, v>>)

RECURSIVE DictSum(_)
DictSum(d) == IF d = <<>> THEN 0 ELSE d[1][2] + DictSum(Tail(d))

(***************************************************************************)
(* ThreatDetectionService.__init__ : the two fixed tables                  *)
(***************************************************************************)
\* self.threat_classes (declared by __init__, read by no method)
threat_classes ==
    <<  <<0, "submarine">>, <<1, "mine">>, <<2, "diver">>, <<3, "drone">>,
        <<4, "suspicious_object">> >>

\* self.threat_severity
threat_severity ==
    <<  <<"submarine", "critical">>, <<"mine", "critical">>,
        <<"diver", "high">>, <<"drone", "high">>,
        <<"suspicious_object", "medium">> >>

(***************************************************************************)
(* analyze_threat_patterns_sync (routes/detection.py)                      *)
(***************************************************************************)
\* the loop body: one detection tallied into <<threat_counts, severity_counts>>
TallyStep(acc, detection) ==
    <<  DictSet(acc[1], detection.threat_type,
                DictGet(acc[1], detection.threat_type, 0) + 1),
        DictSet(acc[2], detection.severity,
                DictGet(acc[2], detection.severity, 0) + 1) >>

RECURSIVE Tally(_, _)
Tally(acc, ds) ==
    IF ds = <<>> THEN acc ELSE Tally(TallyStep(acc, Head(ds)), Tail(ds))

\* Python max(items, key=lambda x: x[1]): a left-to-right scan that replaces
\* the running best only by a strictly greater key
\* variant: the scan also replaces the running best on an equal key
RECURSIVE MaxByCountFromLast(_, _)
MaxByCountFromLast(best, items) ==
    IF items = <<>> THEN best
    ELSE MaxByCountFromLast(IF Head(items)[2] >= best[2] THEN Head(items) ELSE best,
                            Tail(items))

RECURSIVE MaxByCountFrom(_, _)
MaxByCountFrom(best, items) ==
    IF items = <<>> THEN best
    ELSE MaxByCountFrom(IF Head(items)[2] > best[2] THEN Head(items) ELSE best,
                        Tail(items))

MaxByCount(items) == MaxByCountFrom(Head(items), Tail(items))

(***************************************************************************)
(* Python floats.  A natural number is the sequence of its digits to the   *)
(* base Limb, lowest first and without leading zeros; a float of           *)
(* [0.25, 16) is the natural number of units of 2^-UnitExp it holds, which *)
(* has at most 53 significant bits.  Confidences are carried as whole      *)
(* hundredths and stand for the float nearest to them.                     *)
(***************************************************************************)
LimbBits == 16
Limb == 2 ^ LimbBits

RECURSIVE BigAddCarry(_, _, _)
BigAddCarry(a, b, carry) ==
    IF a = <<>> /\ b = <<>>
    THEN IF carry = 0 THEN <<>> ELSE <<carry>>
    ELSE LET x == (IF a = <<>> THEN 0 ELSE Head(a))
                + (IF b = <<>> THEN 0 ELSE Head(b)) + carry
         IN  <<x % Limb>> \o BigAddCarry(IF a = <<>> THEN <<>> ELSE Tail(a),
                                         IF b = <<>> THEN <<>> ELSE Tail(b),
                                         x \div Limb)

BigAdd(a, b) == BigAddCarry(a, b, 0)

RECURSIVE BigMulCarry(_, _, _)
BigMulCarry(a, k, carry) ==
    IF a = <<>>
    THEN IF carry = 0 THEN <<>> ELSE <<carry>>
    ELSE LET x == Head(a) * k + carry
         IN  <<x % Limb>> \o BigMulCarry(Tail(a), k, x \div Limb)

\* a times k, 0 <= k < Limb
BigMulSmall(a, k) == IF k = 0 THEN <<>> ELSE BigMulCarry(a, k, 0)

\* a divided by k, 0 < k < Limb: [q, r]
RECURSIVE BigDivSmall(_, _)
BigDivSmall(a, k) ==
    IF a = <<>> THEN [q |-> <<>>, r |-> 0]
    ELSE LET upper == BigDivSmall(Tail(a), k)
             cur == upper.r * Limb + Head(a)
         IN  [q |-> IF upper.q = <<>> /\ cur \div k = 0 THEN <<>>
                    ELSE <<cur \div k>> \o upper.q,
              r |-> cur % k]

RECURSIVE BigLess(_, _)
BigLess(a, b) ==
    IF Len(a) # Len(b) THEN Len(a) < Len(b)
    ELSE IF a = <<>> THEN FALSE
    ELSE IF a[Len(a)] # b[Len(b)] THEN a[Len(a)] < b[Len(b)]
    ELSE BigLess(SubSeq(a, 1, Len(a) - 1), SubSeq(b, 1, Len(b) - 1))

BigLessEq(a, b) == ~BigLess(b, a)

\* 2^k
Pow2(k) == [i \in 1..(k \div LimbBits) |-> 0] \o <<2 ^ (k % LimbBits)>>

\* bits of the significand of a float
MantissaBits == 53

\* a float holds units of 2^-55
UnitExp == 55

\* the spacing, in units, of the floats around q units (q of at least 53
\* bits): the least power of two m with q < m * 2^53
RECURSIVE Spacing(_, _)
Spacing(q, m) ==
    IF BigLess(q, BigMulSmall(Pow2(MantissaBits), m)) THEN m
    ELSE Spacing(q, 2 * m)

\* the float nearest to s / n, s a natural number of units and n a small
\* positive integer; a value half way between two floats goes to the one
\* with the even significand
FloatDiv(s, n) ==
    LET m == Spacing(BigDivSmall(s, n).q, 1)
        d == BigDivSmall(s, n * m)
        down == IF 2 * d.r < n * m THEN TRUE
                ELSE IF 2 * d.r > n * m THEN FALSE
                ELSE BigDivSmall(d.q, 2).r = 0
    IN  BigMulSmall(IF down THEN d.q ELSE BigAdd(d.q, <<1>>), m)

\* x + y on floats
FloatAdd(x, y) == FloatDiv(BigAdd(x, y), 1)

\* the float nearest to num / den, 1/4 <= num / den < 1
FloatOf(num, den) == FloatDiv(BigMulSmall(Pow2(UnitExp), num), den)

\* the float of a confidence given in hundredths
FloatOfHundredths(c) == FloatOf(c, 100)

\* sum(...) of floats: 0 + x1 + x2 + ..., each addition rounded
RECURSIVE FloatSumFrom(_, _)
FloatSumFrom(acc, xs) ==
    IF xs = <<>> THEN acc
    ELSE FloatSumFrom(FloatAdd(acc, Head(xs)), Tail(xs))

FloatSum(xs) == FloatSumFrom(<<>>, xs)

\* whether h hundredths is a decimal nearest to the number num / den units
\* (num a natural number, den a small positive integer)
NearestHundredth(h, num, den) ==
    LET twice == BigMulSmall(num, 200)
        unit == BigMulSmall(Pow2(UnitExp), den)
    IN  /\ h = 0 \/ BigLessEq(BigMulSmall(unit, 2 * h - 1), twice)
        /\ BigLessEq(twice, BigMulSmall(unit, 2 * h + 1))

\* round(x, 2) of a float x of [0, 1], in hundredths: the decimal nearest to
\* the value the float holds, the even one of two equally near
Round2(x) ==
    LET scaled == BigMulSmall(x, 100)
        whole == BigDivSmall(SubSeq(scaled, UnitExp \div LimbBits + 1,
                                    Len(scaled)),
                             2 ^ (UnitExp % LimbBits)).q
        below == IF whole = <<>> THEN 0 ELSE whole[1]
    IN  IF ~NearestHundredth(below + 1, x, 1) THEN below
        ELSE IF ~NearestHundredth(below, x, 1) THEN below + 1
        ELSE IF below % 2 = 0 THEN below ELSE below + 1

\* avg_confidence = sum(d["confidence"] for d in detections) / len(detections)
\* and round(avg_confidence, 2), on the floats of the confidences
AverageConfidence(confidences) ==
    Round2(FloatDiv(FloatSum(confidences), Len(confidences)))

\* variant: the "high" tier is never consulted
RiskLevelNoMedium(severity_counts) ==
    IF DictGet(severity_counts, "critical", 0) > 0 THEN "high" ELSE "low"

RiskLevel(severity_counts) ==
    IF DictGet(severity_counts, "critical", 0) > 0 THEN "high"
    ELSE IF DictGet(severity_counts, "high", 0) > 0 THEN "medium"
    ELSE "low"

\* variant: severity_counts starts as an empty dict
InitialSeverityCountsEmpty == EmptyDict

InitialSeverityCounts == << <<"critical", 0>>, <<"high", 0>>, <<"medium", 0>> >>

AnalyzeNonEmpty(detections) ==
    LET counts == Tally(<<EmptyDict, InitialSeverityCounts>>, detections)
        most_common == MaxByCount(counts[1])
    IN  [most_common_threat |-> [type |-> most_common[1],
                                 count |-> most_common[2]],
         threat_distribution |-> counts[1],
         severity_distribution |-> counts[2],
         average_confidence |->
                  AverageConfidence([i \in DOMAIN detections |->
                      FloatOfHundredths(detections[i].confidence)]),
         total_threats |-> Len(detections),
         risk_level |-> RiskLevel(counts[2])]

\* variant: the empty list gets a full report with zero counts
AnalyzeEmptyAsLow(detections) ==
    IF detections = <<>>
    THEN [pattern_summary |-> "No threats detected",
          threat_distribution |-> EmptyDict,
          severity_distribution |-> InitialSeverityCounts,
          total_threats |-> 0,
          risk_level |-> RiskLevel(InitialSeverityCounts)]
    ELSE AnalyzeNonEmpty(detections)

analyze_threat_patterns_sync(detections) ==
    IF detections = <<>>
    THEN [pattern_summary |-> "No threats detected"]
    ELSE AnalyzeNonEmpty(detections)

(***************************************************************************)
(* Images and files.  An image is what cv2.imread returns for a file: its  *)
(* shape, the boxes the YOLO model reports on it, and the overlay drawn on *)
(* it so far.  A path is directory, timestamp prefix, the pieces of the    *)
(* file name in order, and the extension.                                  *)
(***************************************************************************)
NonePath == [dir |-> "None", ts |-> 0, name |-> <<>>, ext |-> ""]

Box(class_id, confidence, x1, y1, x2, y2) ==
    [class_id |-> class_id, confidence |-> confidence,
     xyxy |-> <<x1, y1, x2, y2>>]

ImgTargets ==
    [id |-> "targets", readable |-> TRUE, width |-> 640, height |-> 480,
     boxes |-> << Box(0, 89, 10, 20, 210, 120), Box(2, 60, 300, 200, 360, 320) >>,
     overlay |-> <<>>, stages |-> <<>>]

ImgClear ==
    [id |-> "clear", readable |-> TRUE, width |-> 640, height |-> 480,
     boxes |-> <<>>, overlay |-> <<>>, stages |-> <<>>]

ImgSmall ==
    [id |-> "small", readable |-> TRUE, width |-> 160, height |-> 120,
     boxes |-> << Box(80, 55, 5, 5, 40, 60) >>, overlay |-> <<>>, stages |-> <<>>]

\* a frame on which the model reports a box that clip_boxes has cut down to
\* the bottom edge of the image: y1 = y2 = height
ImgEdge ==
    [id |-> "edge", readable |-> TRUE, width |-> 640, height |-> 480,
     boxes |-> << Box(8, 75, 600, 480, 640, 480) >>, overlay |-> <<>>,
     stages |-> <<>>]

ImgCorrupt ==
    [id |-> "corrupt", readable |-> FALSE, width |-> 0, height |-> 0,
     boxes |-> <<>>, overlay |-> <<>>, stages |-> <<>>]

\* cv2.imread(path): None for a missing or undecodable file
ImRead(dsk, path) ==
    IF path \in DOMAIN dsk /\ dsk[path].readable
    THEN [ok |-> TRUE, image |-> dsk[path]]
    ELSE [ok |-> FALSE, image |-> ImgCorrupt]

\* os.path.splitext(os.path.basename(p)) then f"{name}<tag>{ext}" under "enhanced"
TaggedPath(path, tag) ==
    [dir |-> "enhanced", ts |-> path.ts, name |-> Append(path.name, tag),
     ext |-> path.ext]

(***************************************************************************)
(* ThreatDetectionService                                                  *)
(***************************************************************************)
common_to_threat ==
    [class_id \in 0..8 |-> "suspicious_object"]

_map_class_to_threat(class_id) ==
    IF class_id \in DOMAIN common_to_threat
    THEN common_to_threat[class_id] ELSE "suspicious_object"

Detection(threat_type, confidence, severity, x1, y1, x2, y2) ==
    [threat_type |-> threat_type, confidence |-> confidence,
     severity |-> severity,
     bbox |-> [x1 |-> x1, y1 |-> y1, x2 |-> x2, y2 |-> y2],
     area |-> (x2 - x1) * (y2 - y1)]

\* variant: a confident detection is promoted to "critical"
DetectionOfBoxByConfidence(box) ==
    LET threat_type == _map_class_to_threat(box.class_id)
    IN  Detection(threat_type, box.confidence,
                  IF box.confidence >= 80 THEN "critical"
                  ELSE DictGet(threat_severity, threat_type, "low"),
                  box.xyxy[1], box.xyxy[2], box.xyxy[3], box.xyxy[4])

\* the body of "for box in boxes" of _detect_threats_sync
DetectionOfBox(box) ==
    LET threat_type == _map_class_to_threat(box.class_id)
    IN  Detection(threat_type, box.confidence,
                  DictGet(threat_severity, threat_type, "low"),
                  box.xyxy[1], box.xyxy[2], box.xyxy[3], box.xyxy[4])

\* self.model(image, conf=confidence_threshold): the boxes at or above it
RunModel(image, confidence_threshold) ==
    SelectSeq(image.boxes, LAMBDA b : b.confidence >= confidence_threshold)

MapBoxes(boxes) == [i \in DOMAIN boxes |-> DetectionOfBox(boxes[i])]

\* np.random.randint(low, high): a value of [low, high), ValueError when empty.
\* The draw is bounded to the two ends of the range.
RandIntOk(low, high) == low < high

RandInt(low, high, top) == IF top THEN high - 1 ELSE low

\* One outcome of the random draws of _generate_prototype_detections:
\* sub, div: whether np.random.random() passed 0.7, resp. 0.8;
\* top: whether the ranges are drawn at their upper or their lower end
RandomDraws == [sub : BOOLEAN, div : BOOLEAN, top : BOOLEAN]

\* [raised, detections]: raised when a randint range is empty
_generate_prototype_detections(image, rnd) ==
    LET width == image.width
        height == image.height
        subOk == RandIntOk(0, width \div 2) /\ RandIntOk(0, height \div 2)
        sx1 == RandInt(0, width \div 2, rnd.top)
        sy1 == RandInt(0, height \div 2, rnd.top)
        sub == Detection("submarine", IF rnd.top THEN 89 ELSE 60, "critical",
                         sx1, sy1,
                         sx1 + RandInt(100, 200, rnd.top),
                         sy1 + RandInt(50, 100, rnd.top))
        divOk == RandIntOk(width \div 2, width - 100)
                 /\ RandIntOk(height \div 2, height - 100)
        dx1 == RandInt(width \div 2, width - 100, rnd.top)
        dy1 == RandInt(height \div 2, height - 100, rnd.top)
        div == Detection("diver", IF rnd.top THEN 79 ELSE 50, "high",
                         dx1, dy1,
                         dx1 + RandInt(30, 80, rnd.top),
                         dy1 + RandInt(60, 120, rnd.top))
    IN  IF (rnd.sub /\ ~subOk) \/ (rnd.div /\ ~divOk)
        THEN [raised |-> TRUE, detections |-> <<>>]
        ELSE [raised |-> FALSE,
              detections |-> (IF rnd.sub THEN <<sub>> ELSE <<>>)
                             \o (IF rnd.div THEN <<div>> ELSE <<>>)]

\* one rectangle, label background and label text per detection
Drawn(detection) ==
    [threat_type |-> detection.threat_type,
     label_confidence |-> detection.confidence,
     bbox |-> detection.bbox]

\* _create_annotated_image: draws on a copy and saves it; [path, content]
_create_annotated_image(image, original_path, detections) ==
    [path |-> TaggedPath(original_path, "_detected"),
     content |-> [image EXCEPT !.overlay =
                    @ \o [i \in DOMAIN detections |-> Drawn(detections[i])]]]

\* _create_prototype_annotation: saves the image as it is; [path, content]
_create_prototype_annotation(image, original_path) ==
    [path |-> TaggedPath(original_path, "_detected"), content |-> image]

\* the loop body of _calculate_threat_summary
\* variant: the last branch is an else, so "low" is counted as medium
SummaryStepElseMedium(summary_, detection) ==
    LET s1 == IF detection.severity = "critical"
              THEN [summary_ EXCEPT !.critical_threats = @ + 1]
              ELSE IF detection.severity = "high"
              THEN [summary_ EXCEPT !.high_threats = @ + 1]
              ELSE [summary_ EXCEPT !.medium_threats = @ + 1]
    IN  [s1 EXCEPT !.threat_types =
            DictSet(@, detection.threat_type,
                    DictGet(@, detection.threat_type, 0) + 1)]

SummaryStep(summary_, detection) ==
    LET s1 == IF detection.severity = "critical"
              THEN [summary_ EXCEPT !.critical_threats = @ + 1]
              ELSE IF detection.severity = "high"
              THEN [summary_ EXCEPT !.high_threats = @ + 1]
              ELSE IF detection.severity = "medium"
              THEN [summary_ EXCEPT !.medium_threats = @ + 1]
              ELSE summary_
    IN  [s1 EXCEPT !.threat_types =
            DictSet(@, detection.threat_type,
                    DictGet(@, detection.threat_type, 0) + 1)]

RECURSIVE SummaryLoop(_, _)
SummaryLoop(summary_, ds) ==
    IF ds = <<>> THEN summary_
    ELSE SummaryLoop(SummaryStep(summary_, Head(ds)), Tail(ds))

_calculate_threat_summary(detections) ==
    SummaryLoop([total_threats |-> Len(detections), critical_threats |-> 0,
                 high_threats |-> 0, medium_threats |-> 0,
                 threat_types |-> EmptyDict], detections)

NoWrites == <<>>

\* _detect_threats_sync on the file system dsk with self.model = mdl:
\* [raised, result, writes], writes being the files it saves
_detect_threats_sync(mdl, dsk, image_path, confidence_threshold, rnd) ==
    LET read == ImRead(dsk, image_path)
        image == read.image
        modelDetections == MapBoxes(RunModel(image, confidence_threshold))
        proto == _generate_prototype_detections(image, rnd)
        detections == IF mdl # "None" THEN modelDetections ELSE proto.detections
        annotation ==
            IF mdl # "None"
            THEN _create_annotated_image(image, image_path, detections)
            ELSE _create_prototype_annotation(image, image_path)
        annotated == IF mdl # "None" /\ detections = <<>>
                     THEN NoWrites ELSE <<annotation>>
    IN  IF ~read.ok \/ (mdl = "None" /\ proto.raised)
        THEN [raised |-> TRUE, result |-> [error |-> "exception"],
              writes |-> NoWrites]
        ELSE [raised |-> FALSE,
              result |->
                [total_detections |-> Len(detections),
                 detections |-> detections,
                 threat_summary |-> _calculate_threat_summary(detections),
                 annotated_image |->
                    IF annotated = NoWrites THEN NonePath ELSE annotation.path,
                 processing_info |->
                    [model_used |-> IF mdl # "None" THEN "YOLOv8" ELSE "Prototype",
                     confidence_threshold |-> confidence_threshold,
                     image_size |-> <<image.width, image.height>>]],
              writes |-> annotated]

\* detect_threats: the executor call, any exception turned into an error dict
detect_threats(mdl, dsk, image_path, confidence_threshold, rnd) ==
    LET sync == _detect_threats_sync(mdl, dsk, image_path,
                                     confidence_threshold, rnd)
    IN  IF sync.raised
        THEN [result |-> [error |-> "exception", detections |-> <<>>],
              writes |-> NoWrites]
        ELSE [result |-> sync.result, writes |-> sync.writes]

(***************************************************************************)
(* Requests.  The module-level service objects: routes/detection.py and    *)
(* routes/unified.py each construct their own ThreatDetectionService.      *)
(***************************************************************************)
Instances == {"detection", "unified"}

\* routes/unified.py and routes/enhancement.py each construct their own
\* ImageEnhancementService
EnhInstances == {"unified", "enhancement"}

Upload(name, ext, is_image, image) ==
    [filename |-> [name |-> <<name>>, ext |-> ext],
     content_type_image |-> is_image, content |-> image]

Uploads ==
    { Upload("a", ".jpg", TRUE, ImgTargets),
      Upload("a", ".jpg", TRUE, ImgCorrupt),
      Upload("b", ".jpg", TRUE, ImgSmall),
      Upload("b", ".jpg", TRUE, ImgClear),
      Upload("notes", ".txt", FALSE, ImgCorrupt) }

\* the uploads of the single-image routes
SingleUploads == Uploads \cup { Upload("c", ".png", TRUE, ImgEdge) }

\* the uploads and thresholds of the process_batch_unified and batch_enhance
\* routes
BatchUploads ==
    { Upload("a", ".jpg", TRUE, ImgTargets),
      Upload("a", ".jpg", TRUE, ImgCorrupt),
      Upload("b", ".jpg", TRUE, ImgSmall),
      Upload("notes", ".txt", FALSE, ImgCorrupt) }

BatchThresholds == {50}

\* the uploads and thresholds of the two-connection specification
ConcUploads ==
    { Upload("a", ".jpg", TRUE, ImgTargets), Upload("a", ".jpg", TRUE, ImgCorrupt) }

Thresholds == {50, 70, 150}
ConcThresholds == {50}

SeqsUpTo(S, n) == UNION {[1..k -> S] : k \in 0..n}

NoDict == [none |-> TRUE]
NoResponse == [status |-> 0, body |-> NoDict]

IdleReq ==
    [pc |-> "idle", route |-> "none", files |-> <<>>,
     confidence_threshold |-> 0, calculate_metrics |-> FALSE, i |-> 0,
     timestamp |-> 0, upload_path |-> NonePath, enhanced_path |-> NonePath,
     enhancement_results |-> NoDict, detection_results |-> NoDict,
     detect_input |-> ImgCorrupt,
     all_detections |-> <<>>, image_results |-> <<>>, results |-> <<>>,
     perform_detection |-> FALSE, detect_path |-> NonePath,
     loads |-> <<>>,
     response |-> NoResponse]
\* detect_input records the image the latest detect_threats call of the
\* request read (history, for stating properties of the call)
\* detect_path records the path the /process route handed to detect_threats
\* (history)
\* loads records the load_models calls the request has made, each as the
\* kind of service and the route module that owns the object (history)

HttpError(status, detail) == [status |-> status, body |-> [detail |-> detail]]

\* f"uploads/{timestamp}_{file.filename}"
UploadPath(timestamp, file) ==
    [dir |-> "uploads", ts |-> timestamp, name |-> file.filename.name,
     ext |-> file.filename.ext]

\* the files `ws` written by invocation <<r, i>>
WriteAll(dsk, ws) ==
    [p \in DOMAIN dsk \cup {ws[k].path : k \in DOMAIN ws} |->
        IF \E k \in DOMAIN ws : ws[k].path = p
        THEN ws[CHOOSE k \in DOMAIN ws : ws[k].path = p].content
        ELSE dsk[p]]

NoteWriters(wr, ws, inv) ==
    [p \in DOMAIN wr \cup {ws[k].path : k \in DOMAIN ws} |->
        (IF p \in DOMAIN wr THEN wr[p] ELSE {})
        \cup (IF \E k \in DOMAIN ws : ws[k].path = p THEN {inv} ELSE {})]

\* "if not detection_service.is_loaded: await detection_service.load_models()"
\* load_models never suspends: it sets model to a YOLO object, or to None
\* when the weights cannot be loaded, and is_loaded to True either way
LoadedModels(inst) ==
    IF is_loaded[inst] THEN {model[inst]} ELSE {"None", "YOLO"}

EnsureLoaded(inst, m) ==
    /\ m \in LoadedModels(inst)
    /\ model' = [model EXCEPT ![inst] = m]
    /\ is_loaded' = [is_loaded EXCEPT ![inst] = TRUE]

\* the request calls load_models of a service object
Loads(rq, service) == [rq EXCEPT !.loads = Append(@, service)]

\* "if not detection_service.is_loaded: await detection_service.load_models()"
\* as the request sees it
DetectionLoad(rq, inst) ==
    IF is_loaded[inst] THEN rq ELSE Loads(rq, <<"detection", inst>>)

Finish(r, response) ==
    req' = [req EXCEPT ![r].pc = "done", ![r].response = response]

\* an invocation: the request and the index of the file it handles
Inv(r) == <<r, req[r].i>>

\* timestamp = datetime.now().strftime(...); open(upload_path, "wb"); write
SaveUpload(r, idx, next) ==
    LET file == req[r].files[idx]
        path == UploadPath(clock, file)
        ws == << [path |-> path, content |-> file.content] >>
    IN  /\ disk' = WriteAll(disk, ws)
        /\ writers' = NoteWriters(writers, ws, <<r, idx>>)
        /\ req' = [req EXCEPT ![r].timestamp = clock,
                              ![r].upload_path = path,
                              ![r].i = idx,
                              ![r].pc = next]

(***************************************************************************)
(* POST /detect (routes/detection.py, detect_threats)                      *)
(***************************************************************************)
\* variant: the threshold is not validated
ConfidenceUnchecked(confidence_threshold) == TRUE

\* 0.0 <= confidence_threshold <= 1.0, thresholds in hundredths
ConfidenceInRange(confidence_threshold) ==
    0 <= confidence_threshold /\ confidence_threshold <= 100

\* up to the first suspension: validation, lazy load
DetectReceive(r, uploads, thresholds) ==
    /\ req[r].pc = "idle"
    /\ \E file \in uploads, confidence_threshold \in thresholds :
        LET arrived == [req[r] EXCEPT !.route = "detect", !.files = <<file>>,
                            !.confidence_threshold = confidence_threshold,
                            !.i = 1]
        IN  IF ~file.content_type_image
            THEN /\ req' = [req EXCEPT ![r] =
                        [arrived EXCEPT !.pc = "done",
                            !.response = HttpError(400, "File must be an image")]]
                 /\ UNCHANGED <<model, is_loaded>>
            ELSE IF ~ConfidenceInRange(confidence_threshold)
            THEN /\ req' = [req EXCEPT ![r] =
                        [arrived EXCEPT !.pc = "done",
                            !.response = HttpError(400, "Confidence threshold")]]
                 /\ UNCHANGED <<model, is_loaded>>
            ELSE /\ \E m \in LoadedModels("detection") :
                        EnsureLoaded("detection", m)
                 /\ req' = [req EXCEPT ![r] =
                        [DetectionLoad(arrived, "detection")
                            EXCEPT !.pc = "save"]]
    /\ UNCHANGED <<enh_is_loaded, clock, disk, writers, avars>>

\* timestamp, open(upload_path, "wb"), write
DetectSave(r) ==
    /\ req[r].pc = "save" /\ req[r].route = "detect"
    /\ SaveUpload(r, 1, "detect")
    /\ UNCHANGED <<model, is_loaded, enh_is_loaded, clock, avars>>

\* await detection_service.detect_threats(upload_path, confidence_threshold)
DetectRun(r) ==
    /\ req[r].pc = "detect" /\ req[r].route = "detect"
    /\ \E rnd \in RandomDraws :
        LET out == detect_threats(model["detection"], disk, req[r].upload_path,
                                  req[r].confidence_threshold, rnd)
        IN  /\ disk' = WriteAll(disk, out.writes)
            /\ writers' = NoteWriters(writers, out.writes, Inv(r))
            /\ req' = [req EXCEPT ![r].detection_results = out.result,
                                  ![r].detect_input =
                                        ImRead(disk, req[r].upload_path).image,
                                  ![r].pc = "respond"]
    /\ UNCHANGED <<model, is_loaded, enh_is_loaded, clock, avars>>

\* results = {..., "status": "success", **detection_results}
DetectRespond(r) ==
    /\ req[r].pc = "respond" /\ req[r].route = "detect"
    /\ Finish(r, [status |-> 200,
                  body |-> req[r].detection_results @@
                     [original_filename |-> req[r].files[1].filename,
                      timestamp |-> req[r].timestamp,
                      confidence_threshold |-> req[r].confidence_threshold,
                      status |-> "success"]])
    /\ UNCHANGED <<model, is_loaded, enh_is_loaded, clock, disk, writers, avars>>

\* a second passes
Tick ==
    /\ clock < MaxClock
    /\ clock' = clock + 1
    /\ UNCHANGED <<model, is_loaded, enh_is_loaded, disk, writers, req, avars>>

(***************************************************************************)
(* POST /analyze_threats (routes/detection.py, analyze_threat_patterns)    *)
(***************************************************************************)
BatchLimit == 20

\* the files from position i on that the loop does not skip
ImageIndexes(files, i) ==
    {j \in DOMAIN files : j >= i /\ files[j].content_type_image}

Min(S) == CHOOSE x \in S : \A y \in S : x <= y

\* all_detections.extend(detections)
\* variant: the new detections are put in front
ExtendFront(all_detections, detections) == detections \o all_detections

Extend(all_detections, detections) == all_detections \o detections

AnalyzeReceive(r, uploads, maxFiles) ==
    /\ req[r].pc = "idle"
    /\ \E files \in SeqsUpTo(uploads, maxFiles) :
        LET arrived == [req[r] EXCEPT !.route = "analyze", !.files = files,
                            !.confidence_threshold = 50, !.i = 1]
        IN  IF Len(files) > BatchLimit
            THEN /\ req' = [req EXCEPT ![r] =
                        [arrived EXCEPT !.pc = "done",
                            !.response = HttpError(400, "Maximum 20 images")]]
                 /\ UNCHANGED <<model, is_loaded>>
            ELSE /\ \E m \in LoadedModels("detection") :
                        EnsureLoaded("detection", m)
                 /\ req' = [req EXCEPT ![r] =
                        [DetectionLoad(arrived, "detection")
                            EXCEPT !.pc = "loop"]]
    /\ UNCHANGED <<enh_is_loaded, clock, disk, writers, avars>>

\* the next file that is an image is saved (the others are skipped)
AnalyzeSave(r) ==
    /\ req[r].pc = "loop" /\ req[r].route = "analyze"
    /\ ImageIndexes(req[r].files, req[r].i) # {}
    /\ SaveUpload(r, Min(ImageIndexes(req[r].files, req[r].i)), "detect")
    /\ UNCHANGED <<model, is_loaded, enh_is_loaded, clock, avars>>

\* detect_threats(upload_path), then the two appends; a result without
\* "threat_summary" raises KeyError, which the handler turns into a 500
AnalyzeRun(r) ==
    /\ req[r].pc = "detect" /\ req[r].route = "analyze"
    /\ \E rnd \in RandomDraws :
        LET out == detect_threats(model["detection"], disk, req[r].upload_path,
                                  50, rnd)
            res == out.result
            input == ImRead(disk, req[r].upload_path).image
        IN  /\ disk' = WriteAll(disk, out.writes)
            /\ writers' = NoteWriters(writers, out.writes, Inv(r))
            /\ IF "threat_summary" \notin DOMAIN res
               THEN req' = [req EXCEPT ![r].detection_results = res,
                        ![r].detect_input = input,
                        ![r].pc = "done",
                        ![r].response = HttpError(500, "Pattern analysis failed")]
               ELSE req' = [req EXCEPT ![r].detection_results = res,
                        ![r].detect_input = input,
                        ![r].image_results = Append(@,
                            [filename |-> req[r].files[req[r].i].filename,
                             detections |-> res.detections,
                             threat_summary |-> res.threat_summary]),
                        ![r].all_detections = Extend(@, res.detections),
                        ![r].i = @ + 1,
                        ![r].pc = "loop"]
    /\ UNCHANGED <<model, is_loaded, enh_is_loaded, clock, avars>>

\* after the loop: the pattern analysis and the response
AnalyzeFinish(r) ==
    /\ req[r].pc = "loop" /\ req[r].route = "analyze"
    /\ ImageIndexes(req[r].files, req[r].i) = {}
    /\ Finish(r, [status |-> 200,
                  body |-> [total_images |-> Len(req[r].image_results),
                            total_threats |-> Len(req[r].all_detections),
                            image_results |-> req[r].image_results,
                            pattern_analysis |->
                                analyze_threat_patterns_sync(req[r].all_detections),
                            timestamp |-> clock]])
    /\ UNCHANGED <<model, is_loaded, enh_is_loaded, clock, disk, writers, avars>>

(***************************************************************************)
(* ImageEnhancementService as the unified route uses it                    *)
(***************************************************************************)
\* _prototype_enhancement: the four stages in order, on a copy
_prototype_enhancement(image) ==
    [image EXCEPT !.stages = @ \o <<"red_channel", "clahe", "dehaze", "sharpen">>]

\* enhance_image / _enhance_image_sync: [raised, path, writes]
\* variant: the result of cv2.imread is not looked at
enhance_image_unchecked(loaded, dsk, image_path) ==
    LET read == ImRead(dsk, image_path)
        enhanced_path == TaggedPath(image_path, "_enhanced")
    IN  IF ~loaded
        THEN [raised |-> TRUE, path |-> NonePath, writes |-> NoWrites]
        ELSE [raised |-> FALSE, path |-> enhanced_path,
              writes |-> << [path |-> enhanced_path,
                             content |-> _prototype_enhancement(read.image)] >>]

\* variant: is_loaded is not looked at
enhance_image_unguarded(loaded, dsk, image_path) ==
    LET read == ImRead(dsk, image_path)
        enhanced_path == TaggedPath(image_path, "_enhanced")
    IN  IF ~read.ok
        THEN [raised |-> TRUE, path |-> NonePath, writes |-> NoWrites]
        ELSE [raised |-> FALSE, path |-> enhanced_path,
              writes |-> << [path |-> enhanced_path,
                             content |-> _prototype_enhancement(read.image)] >>]

enhance_image(loaded, dsk, image_path) ==
    LET read == ImRead(dsk, image_path)
        enhanced_path == TaggedPath(image_path, "_enhanced")
    IN  IF ~loaded \/ ~read.ok
        THEN [raised |-> TRUE, path |-> NonePath, writes |-> NoWrites]
        ELSE [raised |-> FALSE, path |-> enhanced_path,
              writes |-> << [path |-> enhanced_path,
                             content |-> _prototype_enhancement(read.image)] >>]

\* cv2.resize(enhanced, (original.shape[1], original.shape[0]))
Resize(image, width, height) ==
    [image EXCEPT !.width = width, !.height = height]

\* structural_similarity slides a window of win_size pixels, 7 unless the
\* caller passes one, and raises ValueError for an image with a smaller side
WinSize == 7

SsimRaises(image) == image.width < WinSize \/ image.height < WinSize

\* psnr of two images with the same samples: the mean squared error is 0,
\* 10 * log10(data_range^2 / 0.0) is inf
PsnrInfinity == <<"inf">>

\* ssim of two images with the same samples: every local value is x / x
SsimOne == <<"1.0">>

\* the three values (kept symbolic for images that differ: which images
\* they were computed from)
MetricsRecord(original, enhanced) ==
    [psnr |-> IF original = enhanced THEN PsnrInfinity
              ELSE <<"psnr", original.id, enhanced.id>>,
     ssim |-> IF original = enhanced THEN SsimOne
              ELSE <<"ssim", original.id, enhanced.id>>,
     uiqm |-> <<"uiqm", enhanced.id>>]

\* _calculate_metrics_sync: [raised, metrics, compared], compared being the
\* shapes of the two images handed to psnr and ssim
\* variant: a failing ssim leaves a record with the values computed so far
_calculate_metrics_sync_partial(dsk, original_path, enhanced_path) ==
    LET original == ImRead(dsk, original_path)
        enhanced == ImRead(dsk, enhanced_path)
        resized == IF <<original.image.width, original.image.height>>
                        # <<enhanced.image.width, enhanced.image.height>>
                   THEN Resize(enhanced.image, original.image.width,
                               original.image.height)
                   ELSE enhanced.image
        compared == << <<original.image.width, original.image.height>>,
                       <<resized.width, resized.height>> >>
    IN  IF ~original.ok \/ ~enhanced.ok
        THEN [raised |-> TRUE, metrics |-> NoDict, compared |-> <<>>]
        ELSE IF SsimRaises(original.image)
        THEN [raised |-> FALSE,
              metrics |-> [psnr |-> <<"psnr", original.image.id, resized.id>>],
              compared |-> compared]
        ELSE [raised |-> FALSE,
              metrics |-> MetricsRecord(original.image, resized),
              compared |-> compared]

_calculate_metrics_sync(dsk, original_path, enhanced_path) ==
    LET original == ImRead(dsk, original_path)
        enhanced == ImRead(dsk, enhanced_path)
        resized == IF <<original.image.width, original.image.height>>
                        # <<enhanced.image.width, enhanced.image.height>>
                   THEN Resize(enhanced.image, original.image.width,
                               original.image.height)
                   ELSE enhanced.image
        compared == << <<original.image.width, original.image.height>>,
                       <<resized.width, resized.height>> >>
    IN  IF ~original.ok \/ ~enhanced.ok
        THEN [raised |-> TRUE, metrics |-> NoDict, compared |-> <<>>]
        ELSE IF SsimRaises(original.image)
        THEN [raised |-> TRUE, metrics |-> NoDict, compared |-> compared]
        ELSE [raised |-> FALSE,
              metrics |-> MetricsRecord(original.image, resized),
              compared |-> compared]

\* calculate_metrics: the executor call, any exception turned into an error
\* dict
calculate_metrics(dsk, original_path, enhanced_path) ==
    LET sync == _calculate_metrics_sync(dsk, original_path, enhanced_path)
    IN  IF sync.raised THEN [error |-> "exception"] ELSE sync.metrics

(***************************************************************************)
(* POST /process_unified (routes/unified.py, process_image_unified)        *)
(***************************************************************************)
\* "if not detection_service.is_loaded: await ...load_models()", then on to
\* the upload
UnifiedAfterEnhLoad(r, rq) ==
    /\ \E m \in LoadedModels("unified") : EnsureLoaded("unified", m)
    /\ req' = [req EXCEPT ![r] =
                [DetectionLoad(rq, "unified") EXCEPT !.pc = "save"]]

UnifiedReceive(r, uploads, thresholds) ==
    /\ req[r].pc = "idle"
    /\ \E file \in uploads, confidence_threshold \in thresholds,
          metrics \in BOOLEAN :
        LET arrived == [req[r] EXCEPT !.route = "unified", !.files = <<file>>,
                            !.confidence_threshold = confidence_threshold,
                            !.calculate_metrics = metrics, !.i = 1]
        IN  IF ~file.content_type_image
            THEN /\ req' = [req EXCEPT ![r] =
                        [arrived EXCEPT !.pc = "done",
                            !.response = HttpError(400, "File must be an image")]]
                 /\ UNCHANGED <<model, is_loaded>>
            ELSE IF ~enh_is_loaded["unified"]
            THEN \* await enhancement_service.load_models(): asyncio.sleep(1)
                 /\ req' = [req EXCEPT ![r] =
                        [Loads(arrived, <<"enhancement", "unified">>)
                            EXCEPT !.pc = "enh_load"]]
                 /\ UNCHANGED <<model, is_loaded>>
            ELSE UnifiedAfterEnhLoad(r, arrived)
    /\ UNCHANGED <<enh_is_loaded, clock, disk, writers, avars>>

\* load_models resumes after the sleep: self.is_loaded = True
UnifiedEnhLoaded(r) ==
    /\ req[r].pc = "enh_load" /\ req[r].route = "unified"
    /\ enh_is_loaded' = [enh_is_loaded EXCEPT !["unified"] = TRUE]
    /\ UnifiedAfterEnhLoad(r, req[r])
    /\ UNCHANGED <<clock, disk, writers, avars>>

UnifiedSave(r) ==
    /\ req[r].pc = "save" /\ req[r].route = "unified"
    /\ SaveUpload(r, 1, "enhance")
    /\ UNCHANGED <<model, is_loaded, enh_is_loaded, clock, avars>>

\* Step 1: enhanced_path = await enhancement_service.enhance_image(upload_path)
UnifiedEnhance(r) ==
    /\ req[r].pc = "enhance" /\ req[r].route = "unified"
    /\ LET out == enhance_image(enh_is_loaded["unified"], disk,
                                req[r].upload_path)
       IN  /\ disk' = WriteAll(disk, out.writes)
           /\ writers' = NoteWriters(writers, out.writes, Inv(r))
           /\ IF out.raised
              THEN Finish(r, HttpError(500, "Unified processing failed"))
              ELSE req' = [req EXCEPT ![r].enhanced_path = out.path,
                        ![r].enhancement_results =
                            [original_filename |-> req[r].files[1].filename,
                             enhanced_image |-> out.path,
                             timestamp |-> req[r].timestamp,
                             enhancement_status |-> "success"],
                        ![r].pc = IF req[r].calculate_metrics
                                  THEN "metrics" ELSE "detect"]
    /\ UNCHANGED <<model, is_loaded, enh_is_loaded, clock, avars>>

\* metrics = await enhancement_service.calculate_metrics(upload_path, enhanced_path)
UnifiedMetrics(r) ==
    /\ req[r].pc = "metrics" /\ req[r].route = "unified"
    /\ req' = [req EXCEPT ![r].enhancement_results =
                    [quality_metrics |->
                        calculate_metrics(disk, req[r].upload_path,
                                          req[r].enhanced_path)] @@ @,
                  ![r].pc = "detect"]
    /\ UNCHANGED <<model, is_loaded, enh_is_loaded, clock, disk, writers, avars>>

\* Step 2: detect_threats(enhanced_path, confidence_threshold)
UnifiedDetect(r) ==
    /\ req[r].pc = "detect" /\ req[r].route = "unified"
    /\ \E rnd \in RandomDraws :
        LET out == detect_threats(model["unified"], disk, req[r].enhanced_path,
                                  req[r].confidence_threshold, rnd)
        IN  /\ disk' = WriteAll(disk, out.writes)
            /\ writers' = NoteWriters(writers, out.writes, Inv(r))
            /\ req' = [req EXCEPT ![r].detection_results = out.result,
                                  ![r].detect_input =
                                        ImRead(disk, req[r].enhanced_path).image,
                                  ![r].pc = "respond"]
    /\ UNCHANGED <<model, is_loaded, enh_is_loaded, clock, avars>>

\* unified_results = {**enhancement_results, **detection_results, ...}
UnifiedRespond(r) ==
    /\ req[r].pc = "respond" /\ req[r].route = "unified"
    /\ Finish(r, [status |-> 200,
                  body |-> [processing_mode |-> "unified",
                            confidence_threshold |-> req[r].confidence_threshold]
                           @@ req[r].detection_results
                           @@ req[r].enhancement_results])
    /\ UNCHANGED <<model, is_loaded, enh_is_loaded, clock, disk, writers, avars>>

(***************************************************************************)
(* POST /process_batch_unified (routes/unified.py, process_batch_unified)  *)
(* and POST /batch_enhance (routes/enhancement.py, batch_enhance_images)   *)
(***************************************************************************)
UnifiedBatchLimit == 5
EnhanceBatchLimit == 10

\* the entry of a file the loop does not process
NotAnImage(file) ==
    [filename |-> file.filename, status |-> "error",
     error |-> "File must be an image"]

\* the entry the inner except appends
ItemError(file) ==
    [filename |-> file.filename, status |-> "error", error |-> "exception"]

\* the entries of the files at positions i .. j - 1, none of them an image
Skipped(files, i, j) == [k \in 1..(j - i) |-> NotAnImage(files[i + k - 1])]

\* the loop from position i to the next image: the files before it get their
\* error entry, the image is saved
BatchSave(r, route) ==
    /\ req[r].pc = "loop" /\ req[r].route = route
    /\ ImageIndexes(req[r].files, req[r].i) # {}
    /\ LET j == Min(ImageIndexes(req[r].files, req[r].i))
           file == req[r].files[j]
           path == UploadPath(clock, file)
           ws == << [path |-> path, content |-> file.content] >>
       IN  /\ disk' = WriteAll(disk, ws)
           /\ writers' = NoteWriters(writers, ws, <<r, j>>)
           /\ req' = [req EXCEPT ![r].results =
                                    @ \o Skipped(req[r].files, req[r].i, j),
                                 ![r].timestamp = clock,
                                 ![r].upload_path = path,
                                 ![r].i = j,
                                 ![r].pc = "enhance"]
    /\ UNCHANGED <<model, is_loaded, enh_is_loaded, clock, avars>>

\* the loop runs out of images: the remaining files get their error entry
\* and the response is sent
BatchFinish(r, route) ==
    /\ req[r].pc = "loop" /\ req[r].route = route
    /\ ImageIndexes(req[r].files, req[r].i) = {}
    /\ LET results == req[r].results
                      \o Skipped(req[r].files, req[r].i, Len(req[r].files) + 1)
       IN  req' = [req EXCEPT ![r].results = results,
                              ![r].i = Len(req[r].files) + 1,
                              ![r].pc = "done",
                              ![r].response =
                                 [status |-> 200,
                                  body |-> [batch_results |-> results]]]
    /\ UNCHANGED <<model, is_loaded, enh_is_loaded, clock, disk, writers, avars>>

BatchUnifiedReceive(r, uploads, thresholds, maxFiles) ==
    /\ req[r].pc = "idle"
    /\ \E files \in SeqsUpTo(uploads, maxFiles),
          confidence_threshold \in thresholds :
        LET arrived == [req[r] EXCEPT !.route = "batch_unified",
                            !.files = files,
                            !.confidence_threshold = confidence_threshold,
                            !.i = 1]
        IN  IF Len(files) > UnifiedBatchLimit
            THEN /\ req' = [req EXCEPT ![r] =
                        [arrived EXCEPT !.pc = "done",
                            !.response = HttpError(400, "Maximum 5 images")]]
                 /\ UNCHANGED <<model, is_loaded>>
            ELSE IF ~enh_is_loaded["unified"]
            THEN /\ req' = [req EXCEPT ![r] =
                        [Loads(arrived, <<"enhancement", "unified">>)
                            EXCEPT !.pc = "enh_load"]]
                 /\ UNCHANGED <<model, is_loaded>>
            ELSE /\ \E m \in LoadedModels("unified") :
                        EnsureLoaded("unified", m)
                 /\ req' = [req EXCEPT ![r] =
                        [DetectionLoad(arrived, "unified")
                            EXCEPT !.pc = "loop"]]
    /\ UNCHANGED <<enh_is_loaded, clock, disk, writers, avars>>

\* load_models resumes after the sleep, then the detection service is loaded
BatchUnifiedEnhLoaded(r) ==
    /\ req[r].pc = "enh_load" /\ req[r].route = "batch_unified"
    /\ enh_is_loaded' = [enh_is_loaded EXCEPT !["unified"] = TRUE]
    /\ \E m \in LoadedModels("unified") : EnsureLoaded("unified", m)
    /\ req' = [req EXCEPT ![r] =
                [DetectionLoad(req[r], "unified") EXCEPT !.pc = "loop"]]
    /\ UNCHANGED <<clock, disk, writers, avars>>

BatchUnifiedSave(r) == BatchSave(r, "batch_unified")

\* enhanced_path = await enhancement_service.enhance_image(upload_path);
\* an exception is caught by the inner except
BatchUnifiedEnhance(r) ==
    /\ req[r].pc = "enhance" /\ req[r].route = "batch_unified"
    /\ LET out == enhance_image(enh_is_loaded["unified"], disk,
                                req[r].upload_path)
       IN  /\ disk' = WriteAll(disk, out.writes)
           /\ writers' = NoteWriters(writers, out.writes, Inv(r))
           /\ IF out.raised
              THEN req' = [req EXCEPT ![r].results =
                                Append(@, ItemError(req[r].files[req[r].i])),
                            ![r].i = @ + 1,
                            ![r].pc = "loop"]
              ELSE req' = [req EXCEPT ![r].enhanced_path = out.path,
                                      ![r].pc = "detect"]
    /\ UNCHANGED <<model, is_loaded, enh_is_loaded, clock, avars>>

\* {"original_filename": ..., "status": "success", **detection_results,
\*  "processing_pipeline": [...]}: a later key replaces an earlier one
UnifiedBatchEntry(file, enhanced_path, timestamp, detection_results) ==
    [processing_pipeline |-> <<"enhancement", "detection">>]
    @@ detection_results
    @@ [original_filename |-> file.filename, enhanced_image |-> enhanced_path,
        timestamp |-> timestamp, status |-> "success"]

BatchUnifiedDetect(r) ==
    /\ req[r].pc = "detect" /\ req[r].route = "batch_unified"
    /\ \E rnd \in RandomDraws :
        LET out == detect_threats(model["unified"], disk, req[r].enhanced_path,
                                  req[r].confidence_threshold, rnd)
        IN  /\ disk' = WriteAll(disk, out.writes)
            /\ writers' = NoteWriters(writers, out.writes, Inv(r))
            /\ req' = [req EXCEPT ![r].detection_results = out.result,
                          ![r].detect_input =
                                ImRead(disk, req[r].enhanced_path).image,
                          ![r].results = Append(@,
                                UnifiedBatchEntry(req[r].files[req[r].i],
                                    req[r].enhanced_path, req[r].timestamp,
                                    out.result)),
                          ![r].i = @ + 1,
                          ![r].pc = "loop"]
    /\ UNCHANGED <<model, is_loaded, enh_is_loaded, clock, avars>>

BatchUnifiedFinish(r) == BatchFinish(r, "batch_unified")

BatchEnhanceReceive(r, uploads, maxFiles) ==
    /\ req[r].pc = "idle"
    /\ \E files \in SeqsUpTo(uploads, maxFiles) :
        LET arrived == [req[r] EXCEPT !.route = "batch_enhance",
                            !.files = files, !.i = 1]
        IN  IF Len(files) > EnhanceBatchLimit
            THEN req' = [req EXCEPT ![r] =
                        [arrived EXCEPT !.pc = "done",
                            !.response = HttpError(400, "Maximum 10 images")]]
            ELSE IF ~enh_is_loaded["enhancement"]
            THEN req' = [req EXCEPT ![r] =
                        [Loads(arrived, <<"enhancement", "enhancement">>)
                            EXCEPT !.pc = "enh_load"]]
            ELSE req' = [req EXCEPT ![r] = [arrived EXCEPT !.pc = "loop"]]
    /\ UNCHANGED <<model, is_loaded, enh_is_loaded, clock, disk, writers, avars>>

BatchEnhanceLoaded(r) ==
    /\ req[r].pc = "enh_load" /\ req[r].route = "batch_enhance"
    /\ enh_is_loaded' = [enh_is_loaded EXCEPT !["enhancement"] = TRUE]
    /\ req' = [req EXCEPT ![r].pc = "loop"]
    /\ UNCHANGED <<model, is_loaded, clock, disk, writers, avars>>

BatchEnhanceSave(r) == BatchSave(r, "batch_enhance")

EnhanceBatchEntry(file, enhanced_path, timestamp) ==
    [original_filename |-> file.filename, enhanced_image |-> enhanced_path,
     timestamp |-> timestamp, status |-> "success"]

BatchEnhanceRun(r) ==
    /\ req[r].pc = "enhance" /\ req[r].route = "batch_enhance"
    /\ LET out == enhance_image(enh_is_loaded["enhancement"], disk,
                                req[r].upload_path)
           file == req[r].files[req[r].i]
       IN  /\ disk' = WriteAll(disk, out.writes)
           /\ writers' = NoteWriters(writers, out.writes, Inv(r))
           /\ req' = [req EXCEPT ![r].results = Append(@,
                            IF out.raised THEN ItemError(file)
                            ELSE EnhanceBatchEntry(file, out.path,
                                                   req[r].timestamp)),
                         ![r].enhanced_path = out.path,
                         ![r].i = @ + 1,
                         ![r].pc = "loop"]
    /\ UNCHANGED <<model, is_loaded, enh_is_loaded, clock, avars>>

BatchEnhanceFinish(r) == BatchFinish(r, "batch_enhance")

(***************************************************************************)
(* POST /process of the sih backend (sih/backend/app/api/routes/unified.py,*)
(* unified_processing).  The two services of that backend return result    *)
(* dicts; they are modelled by the keys the route reads from them.         *)
(***************************************************************************)
\* enhancement_level = Form(0.8), confidence = Query(0.5), in hundredths
EnhancementLevel == 80
ProcessConfidence == 50

Succeeded(result) == "success" \in DOMAIN result /\ result.success

\* enhancement_service.enhance_image(filepath, enhancement_level=...):
\* {"success": True, "enhanced_image_path", "metrics"} or
\* {"success": False, "error"}; `works` is whether the service gets through
SihEnhanceImage(dsk, filepath, enhancement_level, works) ==
    LET read == ImRead(dsk, filepath)
        enhanced_path == TaggedPath(filepath, "_enhanced")
        writes == << [path |-> enhanced_path,
                      content |-> _prototype_enhancement(read.image)] >>
    IN  IF ~works \/ ~read.ok
        THEN [result |-> [success |-> FALSE, error |-> "enhancement"],
              writes |-> NoWrites]
        ELSE [result |->
                [success |-> TRUE, enhanced_image_path |-> enhanced_path,
                 metrics |-> calculate_metrics(WriteAll(dsk, writes),
                                               filepath, enhanced_path)],
              writes |-> writes]

\* detection_service.detect_threats(image_path, confidence=..., ...):
\* {"success": True, "detected_image_path", "detections",
\* "total_detections"} or {"success": False, "error"}
SihDetectThreats(dsk, image_path, confidence, works) ==
    LET read == ImRead(dsk, image_path)
        detected_path == TaggedPath(image_path, "_detected")
        found == SelectSeq(read.image.boxes,
                           LAMBDA box : box.confidence >= confidence)
    IN  IF ~works \/ ~read.ok
        THEN [result |-> [success |-> FALSE, error |-> "detection"],
              writes |-> NoWrites]
        ELSE [result |->
                [success |-> TRUE, detected_image_path |-> detected_path,
                 detections |-> found, total_detections |-> Len(found)],
              writes |-> << [path |-> detected_path,
                             content |-> read.image] >>]

\* JSONResponse(status_code=500, content={"success": False, "error": ...})
EnhancementFailed(enhancement_result) ==
    [status |-> 500,
     body |-> [success |-> FALSE, error |-> enhancement_result.error]]

\* variant: a failed detection fails the request
DetectionFailedAsFailure(enhanced_image_path, metrics, detection_result) ==
    [status |-> 500,
     body |-> [success |-> FALSE, error |-> detection_result.error]]

\* "Even if detection fails, return the enhanced image"
DetectionFailed(enhanced_image_path, metrics, detection_result) ==
    [status |-> 200,
     body |-> [success |-> TRUE, enhanced_image_path |-> enhanced_image_path,
               metrics |-> metrics, error |-> detection_result.error]]

\* "Return combined results"; detection_result is None when no detection
\* was asked for
CombinedResults(enhanced_image_path, metrics, detection_result) ==
    [status |-> 200,
     body |-> [success |-> TRUE, enhanced_image_path |-> enhanced_image_path,
               detected_image_path |->
                    IF detection_result # NoDict
                    THEN detection_result.detected_image_path ELSE NonePath,
               metrics |-> metrics,
               detections |->
                    IF detection_result # NoDict
                    THEN detection_result.detections ELSE <<>>,
               total_detections |->
                    IF detection_result # NoDict
                    THEN detection_result.total_detections ELSE 0]]

\* up to the first await: the upload is written under its timestamped name;
\* the route does not look at the content type
ProcessReceive(r, uploads) ==
    /\ req[r].pc = "idle"
    /\ \E file \in uploads, perform_detection \in BOOLEAN :
        LET path == UploadPath(clock, file)
            ws == << [path |-> path, content |-> file.content] >>
        IN  /\ disk' = WriteAll(disk, ws)
            /\ writers' = NoteWriters(writers, ws, <<r, 1>>)
            /\ req' = [req EXCEPT ![r] =
                        [@ EXCEPT !.route = "process", !.files = <<file>>,
                                  !.perform_detection = perform_detection,
                                  !.i = 1, !.timestamp = clock,
                                  !.upload_path = path, !.pc = "enhance"]]
    /\ UNCHANGED <<model, is_loaded, enh_is_loaded, clock, avars>>

\* Step 1: enhancement_result = await enhancement_service.enhance_image(...)
ProcessEnhance(r) ==
    /\ req[r].pc = "enhance" /\ req[r].route = "process"
    /\ \E works \in BOOLEAN :
        LET out == SihEnhanceImage(disk, req[r].upload_path,
                                   EnhancementLevel, works)
        IN  /\ disk' = WriteAll(disk, out.writes)
            /\ writers' = NoteWriters(writers, out.writes, Inv(r))
            /\ IF ~out.result.success
               THEN req' = [req EXCEPT ![r].enhancement_results = out.result,
                                ![r].response = EnhancementFailed(out.result),
                                ![r].pc = "done"]
               ELSE req' = [req EXCEPT ![r].enhancement_results = out.result,
                                ![r].enhanced_path =
                                    out.result.enhanced_image_path,
                                ![r].pc = IF req[r].perform_detection
                                          THEN "detect" ELSE "respond"]
    /\ UNCHANGED <<model, is_loaded, enh_is_loaded, clock, avars>>

\* Step 2: detection_result = await detection_service.detect_threats(
\* enhanced_image_path, ...)
ProcessDetect(r) ==
    /\ req[r].pc = "detect" /\ req[r].route = "process"
    /\ \E works \in BOOLEAN :
        LET out == SihDetectThreats(disk, req[r].enhanced_path,
                                    ProcessConfidence, works)
        IN  /\ disk' = WriteAll(disk, out.writes)
            /\ writers' = NoteWriters(writers, out.writes, Inv(r))
            /\ IF ~out.result.success
               THEN req' = [req EXCEPT ![r].detection_results = out.result,
                                ![r].detect_path = req[r].enhanced_path,
                                ![r].response =
                                    DetectionFailed(req[r].enhanced_path,
                                        req[r].enhancement_results.metrics,
                                        out.result),
                                ![r].pc = "done"]
               ELSE req' = [req EXCEPT ![r].detection_results = out.result,
                                ![r].detect_path = req[r].enhanced_path,
                                ![r].pc = "respond"]
    /\ UNCHANGED <<model, is_loaded, enh_is_loaded, clock, avars>>

ProcessRespond(r) ==
    /\ req[r].pc = "respond" /\ req[r].route = "process"
    /\ Finish(r, CombinedResults(req[r].enhanced_path,
                                 req[r].enhancement_results.metrics,
                                 req[r].detection_results))
    /\ UNCHANGED <<model, is_loaded, enh_is_loaded, clock, disk, writers, avars>>

(***************************************************************************)
(* The server: requests on the open connections, interleaved at their      *)
(* suspension points                                                       *)
(***************************************************************************)
\* one connection in Spec, two concurrent connections in SpecConc
Slots == {1}
ConcSlots == {1, 2}

InitServices ==
    /\ model = [inst \in Instances |-> "None"]
    /\ is_loaded = [inst \in Instances |-> FALSE]
    /\ enh_is_loaded = [inst \in EnhInstances |-> FALSE]
    /\ clock = 0
    /\ disk = <<>>
    /\ writers = <<>>

\* the harness variables outside the harnesses
IdleRest ==
    /\ summary = NoDict
    /\ buffer = <<>>
    /\ run = NoDict
    /\ pair = NoDict
    /\ measured = NoDict
    /\ params = NoDict
    /\ download = NoDict

IdleHarness ==
    /\ dets = <<>>
    /\ report = NoDict
    /\ IdleRest

Init ==
    /\ InitServices
    /\ req = [r \in Slots |-> IdleReq]
    /\ IdleHarness

InitConc ==
    /\ InitServices
    /\ req = [r \in ConcSlots |-> IdleReq]
    /\ IdleHarness

Step(r) ==
    \/ DetectSave(r) \/ DetectRun(r) \/ DetectRespond(r)
    \/ AnalyzeSave(r) \/ AnalyzeRun(r) \/ AnalyzeFinish(r)
    \/ UnifiedEnhLoaded(r) \/ UnifiedSave(r) \/ UnifiedEnhance(r)
    \/ UnifiedMetrics(r) \/ UnifiedDetect(r) \/ UnifiedRespond(r)

\* the steps of the two batch routes
BatchStep(r) ==
    \/ BatchUnifiedEnhLoaded(r) \/ BatchUnifiedSave(r)
    \/ BatchUnifiedEnhance(r) \/ BatchUnifiedDetect(r)
    \/ BatchUnifiedFinish(r)
    \/ BatchEnhanceLoaded(r) \/ BatchEnhanceSave(r) \/ BatchEnhanceRun(r)
    \/ BatchEnhanceFinish(r)

Next ==
    \/ \E r \in Slots :
        \/ DetectReceive(r, SingleUploads, Thresholds)
        \/ AnalyzeReceive(r, Uploads, MaxFiles)
        \/ UnifiedReceive(r, SingleUploads, Thresholds)
        \/ BatchUnifiedReceive(r, BatchUploads, BatchThresholds, MaxFiles)
        \/ BatchEnhanceReceive(r, BatchUploads, MaxFiles)
        \/ Step(r)
        \/ BatchStep(r)
    \/ Tick

NextConc ==
    \/ \E r \in ConcSlots :
        \/ DetectReceive(r, ConcUploads, ConcThresholds)
        \/ AnalyzeReceive(r, ConcUploads, 1)
        \/ UnifiedReceive(r, ConcUploads, ConcThresholds)
        \/ Step(r)
    \/ Tick

Spec == Init /\ [][Next]_vars

SpecConc == InitConc /\ [][NextConc]_vars

\* the /detect route alone, with thresholds below, on, inside and above the
\* ends of the range
DetectThresholds == {-10, 0, 50, 100, 150}

NextDetect ==
    \/ \E r \in Slots :
        \/ DetectReceive(r, SingleUploads, DetectThresholds)
        \/ DetectSave(r)
        \/ DetectRun(r)
        \/ DetectRespond(r)
    \/ Tick

SpecDetect == Init /\ [][NextDetect]_vars

\* the two unified routes: /process of the sih backend and /process_unified
NextProcess ==
    \/ \E r \in Slots :
        \/ ProcessReceive(r, SingleUploads)
        \/ ProcessEnhance(r)
        \/ ProcessDetect(r)
        \/ ProcessRespond(r)
        \/ UnifiedReceive(r, SingleUploads, Thresholds)
        \/ UnifiedEnhLoaded(r)
        \/ UnifiedSave(r)
        \/ UnifiedEnhance(r)
        \/ UnifiedMetrics(r)
        \/ UnifiedDetect(r)
        \/ UnifiedRespond(r)
    \/ Tick

SpecProcess == Init /\ [][NextProcess]_vars

(***************************************************************************)
(* The pattern analysis on its own: every detection list up to MaxDets     *)
(***************************************************************************)
TypedDetection(threat_type, confidence) ==
    Detection(threat_type, confidence,
              DictGet(threat_severity, threat_type, "low"), 0, 0, 10, 10)

AnalyzePool ==
    { TypedDetection("submarine", 89), TypedDetection("mine", 70),
      TypedDetection("diver", 60), TypedDetection("diver", 55),
      TypedDetection("drone", 65), TypedDetection("suspicious_object", 50),
      TypedDetection("unknown", 40) }

InitAnalyze ==
    /\ InitServices
    /\ req = [r \in Slots |-> IdleReq]
    /\ dets \in SeqsUpTo(AnalyzePool, MaxDets)
    /\ report = NoDict
    /\ IdleRest

Analyze ==
    /\ report = NoDict
    /\ report' = analyze_threat_patterns_sync(dets)
    /\ UNCHANGED <<svars, dets, summary, buffer, run, pair, measured,
                 params, download>>

NextAnalyze == Analyze

SpecAnalyze == InitAnalyze /\ [][NextAnalyze]_vars

(***************************************************************************)
(* The average confidence on its own: every list of up to MaxDets floats   *)
(* of ConfidencePool.  dets holds the confidences of the detections.       *)
(***************************************************************************)
\* confidences in thousandths
ConfidencePool ==
    { FloatOf(500, 1000), FloatOf(550, 1000), FloatOf(600, 1000),
      FloatOf(625, 1000), FloatOf(845, 1000), FloatOf(890, 1000) }

InitAverage ==
    /\ InitServices
    /\ req = [r \in Slots |-> IdleReq]
    /\ dets \in SeqsUpTo(ConfidencePool, MaxDets) \ {<<>>}
    /\ report = NoDict
    /\ IdleRest

Average ==
    /\ report = NoDict
    /\ report' = [average_confidence |-> AverageConfidence(dets)]
    /\ UNCHANGED <<svars, dets, summary, buffer, run, pair, measured,
                 params, download>>

NextAverage == Average

SpecAverage == InitAverage /\ [][NextAverage]_vars

(***************************************************************************)
(* _calculate_threat_summary on its own: every detection list up to        *)
(* MaxDets                                                                 *)
(***************************************************************************)
Summarize ==
    /\ summary = NoDict
    /\ summary' = _calculate_threat_summary(dets)
    /\ UNCHANGED <<svars, dets, report, buffer, run, pair, measured,
                 params, download>>

NextSummary == Summarize

SpecSummary == InitAnalyze /\ [][NextSummary]_vars

(***************************************************************************)
(* _prototype_enhancement on pixel buffers.  A buffer is a sequence of     *)
(* rows, a row a sequence of pixels, a pixel the samples <<B, G, R>> (the  *)
(* channel order of cv2.imread).  A uint8 sample is an integer of 0..255;  *)
(* a float sample is an exact fraction n/d in lowest terms, or NaN (the    *)
(* rounding of float32 is left out).                                       *)
(***************************************************************************)
NaN == [nan |-> TRUE, n |-> 0, d |-> 1]

Abs(i) == IF i < 0 THEN -i ELSE i

RECURSIVE Gcd(_, _)
Gcd(a, b) == IF b = 0 THEN a ELSE Gcd(b, a % b)

\* the fraction n/d, d > 0, in lowest terms
Frac(n, d) ==
    LET g == Gcd(Abs(n), d)
    IN  [nan |-> FALSE, n |-> n \div g, d |-> d \div g]

Zero == Frac(0, 1)
One == Frac(1, 1)

FAdd(a, b) ==
    IF a.nan \/ b.nan THEN NaN ELSE Frac(a.n * b.d + b.n * a.d, a.d * b.d)

FSub(a, b) ==
    IF a.nan \/ b.nan THEN NaN ELSE Frac(a.n * b.d - b.n * a.d, a.d * b.d)

FMul(a, b) == IF a.nan \/ b.nan THEN NaN ELSE Frac(a.n * b.n, a.d * b.d)

\* IEEE division: 0/0 is NaN.  (x/0 for x # 0 is an infinity; no division of
\* the pipeline has that case, the divisors being a channel maximum and a
\* transmission of at least 0.1.)
FDiv(a, b) ==
    IF a.nan \/ b.nan \/ b.n = 0 THEN NaN
    ELSE IF b.n > 0 THEN Frac(a.n * b.d, a.d * b.n)
    ELSE Frac(-(a.n * b.d), a.d * (-b.n))

FLess(a, b) == a.n * b.d < b.n * a.d

\* np.minimum / np.maximum / np.min: a NaN operand gives NaN
FMin(a, b) == IF a.nan \/ b.nan THEN NaN ELSE IF FLess(b, a) THEN b ELSE a
FMax(a, b) == IF a.nan \/ b.nan THEN NaN ELSE IF FLess(a, b) THEN b ELSE a

\* np.clip(x, 0, 1): NaN stays NaN
Clip01(a) == IF a.nan THEN NaN ELSE FMax(Zero, FMin(a, One))

\* (x * 255).astype(np.uint8) for x in [0, 1]: truncation; the conversion of
\* NaN to an integer is undefined, `cast` is the value the build gives
ToUint8(a, cast) == IF a.nan THEN cast ELSE (a.n * 255) \div a.d

\* the outcomes of the conversion of NaN: all bits clear or all bits set
NanCasts == {0, 255}

\* x.astype(np.float32) / 255.0
ToFloat(u) == Frac(u, 255)

\* image.astype(np.float32) / 255.0 on a uint8 buffer
ToFloatBuffer(image_uint8) ==
    [y \in DOMAIN image_uint8 |->
        [x \in DOMAIN image_uint8[y] |->
            [c \in 1..3 |-> ToFloat(image_uint8[y][x][c])]]]

\* (image * 255).astype(np.uint8) on a float buffer
ToUint8Buffer(image, cast) ==
    [y \in DOMAIN image |->
        [x \in DOMAIN image[y] |->
            [c \in 1..3 |-> ToUint8(image[y][x][c], cast)]]]

SamplesOf(image) ==
    {image[y][x][c] : y \in DOMAIN image, x \in DOMAIN image[1], c \in 1..3}

\* _enhance_red_channel: channel 2 (R, the third of B, G, R) times 1.5,
\* clipped to [0, 1], on a copy
depth_factor == Frac(3, 2)

\* variant: the boosted channel is not clipped
_enhance_red_channel_unclipped(image) ==
    [y \in DOMAIN image |->
        [x \in DOMAIN image[y] |->
            [image[y][x] EXCEPT ![3] = FMul(@, depth_factor)]]]

_enhance_red_channel(image) ==
    [y \in DOMAIN image |->
        [x \in DOMAIN image[y] |->
            [image[y][x] EXCEPT ![3] = Clip01(FMul(@, depth_factor))]]]

\* the luminance changes CLAHE makes in the model: none (a plane it leaves
\* alone: a saturated colour keeps its zero channel) or a lift of 4 levels
ClaheLifts == {0, 4}

\* _apply_clahe: (image * 255).astype(np.uint8), the L channel equalised by
\* cv2 between two colour conversions, and back to float.  cv2 is not part
\* of the repository: its result is a uint8 buffer of the same shape, here
\* the input with every sample lifted by `lift` levels.
_apply_clahe(image, lift) ==
    LET bgr == ToUint8Buffer(image, 0)
        enhanced ==
            [y \in DOMAIN bgr |->
                [x \in DOMAIN bgr[y] |->
                    [c \in 1..3 |->
                        IF bgr[y][x][c] + lift > 255 THEN 255
                        ELSE bgr[y][x][c] + lift]]]
    IN  ToFloatBuffer(enhanced)

\* np.max(image, axis=(0, 1)): per channel, the largest sample
atmospheric_light(image) ==
    [c \in 1..3 |->
        LET S == {image[y][x][c] : y \in DOMAIN image, x \in DOMAIN image[1]}
        IN  CHOOSE m \in S : \A t \in S : ~FLess(m, t)]

\* 1 - 0.3 * np.min(image / atmospheric_light, axis=2), then
\* np.maximum(transmission, 0.1): one value per pixel
Transmission(image) ==
    LET A == atmospheric_light(image)
    IN  [y \in DOMAIN image |->
            [x \in DOMAIN image[y] |->
                LET p == image[y][x]
                    m == FMin(FDiv(p[1], A[1]),
                              FMin(FDiv(p[2], A[2]), FDiv(p[3], A[3])))
                IN  FMax(FSub(One, FMul(Frac(3, 10), m)), Frac(1, 10))]]

\* _simple_dehaze: (image - A) / transmission + A, clipped to [0, 1]
_simple_dehaze(image) ==
    LET A == atmospheric_light(image)
        transmission == Transmission(image)
    IN  [y \in DOMAIN image |->
            [x \in DOMAIN image[y] |->
                [c \in 1..3 |->
                    Clip01(FAdd(FDiv(FSub(image[y][x][c], A[c]),
                                     transmission[y][x]), A[c]))]]]

\* the sharpening kernel
kernel == << <<-1, -1, -1>>, <<-1, 9, -1>>, <<-1, -1, -1>> >>

\* cv2.BORDER_REFLECT_101, the default border of filter2D: index i of 1..len
Reflect101(i, len) ==
    IF len = 1 THEN 1
    ELSE IF i < 1 THEN 2 - i
    ELSE IF i > len THEN 2 * len - i
    ELSE i

\* saturate_cast<uchar>
Saturate(v) == IF v < 0 THEN 0 ELSE IF v > 255 THEN 255 ELSE v

\* cv2.filter2D(image_uint8, -1, kernel): the kernel centred on each sample
Filter2D(u8) ==
    LET H == Len(u8)
        W == Len(u8[1])
        At(y, x, c) == u8[Reflect101(y, H)][Reflect101(x, W)][c]
    IN  [y \in 1..H |->
            [x \in 1..W |->
                [c \in 1..3 |->
                    Saturate(
                        kernel[1][1] * At(y - 1, x - 1, c)
                      + kernel[1][2] * At(y - 1, x, c)
                      + kernel[1][3] * At(y - 1, x + 1, c)
                      + kernel[2][1] * At(y, x - 1, c)
                      + kernel[2][2] * At(y, x, c)
                      + kernel[2][3] * At(y, x + 1, c)
                      + kernel[3][1] * At(y + 1, x - 1, c)
                      + kernel[3][2] * At(y + 1, x, c)
                      + kernel[3][3] * At(y + 1, x + 1, c))]]]

\* _sharpen_image: to uint8, filter2D, back to float
_sharpen_image(image, cast) ==
    LET image_uint8 == ToUint8Buffer(image, cast)
        sharpened == Filter2D(image_uint8)
    IN  ToFloatBuffer(sharpened)

\* np.clip(sharpened * 255, 0, 255).astype(np.uint8)
Rescale(image, cast) ==
    [y \in DOMAIN image |->
        [x \in DOMAIN image[y] |->
            [c \in 1..3 |-> ToUint8(Clip01(image[y][x][c]), cast)]]]

StageCall(stage, input, output) ==
    [stage |-> stage, input |-> input, output |-> output]

\* _prototype_enhancement: [calls, transmission, result], the stage calls in
\* the order they are made, the transmission map the dehazer used, and the
\* returned uint8 image
\* variant: the dehazer runs before the contrast enhancement
PrototypeEnhancementDehazeFirst(image, lift, cast) ==
    LET image_float == ToFloatBuffer(image)
        red_enhanced == _enhance_red_channel(image_float)
        dehazed == _simple_dehaze(red_enhanced)
        contrast_enhanced == _apply_clahe(dehazed, lift)
        sharpened == _sharpen_image(contrast_enhanced, cast)
    IN  [calls |->
            << StageCall("_enhance_red_channel", image_float, red_enhanced),
               StageCall("_simple_dehaze", red_enhanced, dehazed),
               StageCall("_apply_clahe", dehazed, contrast_enhanced),
               StageCall("_sharpen_image", contrast_enhanced, sharpened) >>,
         transmission |-> Transmission(red_enhanced),
         result |-> Rescale(sharpened, cast)]

PrototypeEnhancement(image, lift, cast) ==
    LET image_float == ToFloatBuffer(image)
        red_enhanced == _enhance_red_channel(image_float)
        contrast_enhanced == _apply_clahe(red_enhanced, lift)
        dehazed == _simple_dehaze(contrast_enhanced)
        sharpened == _sharpen_image(dehazed, cast)
    IN  [calls |->
            << StageCall("_enhance_red_channel", image_float, red_enhanced),
               StageCall("_apply_clahe", red_enhanced, contrast_enhanced),
               StageCall("_simple_dehaze", contrast_enhanced, dehazed),
               StageCall("_sharpen_image", dehazed, sharpened) >>,
         transmission |-> Transmission(contrast_enhanced),
         result |-> Rescale(sharpened, cast)]

(***************************************************************************)
(* _prototype_enhancement on its own: every one-row image of up to         *)
(* MaxPixels pixels over PixelPool                                         *)
(***************************************************************************)
\* B, G, R: black, grey, white, a cyan without red, two water colours
PixelPool ==
    { <<0, 0, 0>>, <<128, 128, 128>>, <<255, 255, 255>>, <<220, 250, 0>>,
      <<200, 120, 40>>, <<30, 90, 200>> }

Rows == UNION {[1..k -> PixelPool] : k \in 1..MaxPixels}

InitEnhance ==
    /\ InitServices
    /\ req = [r \in Slots |-> IdleReq]
    /\ dets = <<>> /\ report = NoDict /\ summary = NoDict
    /\ buffer \in {<<row>> : row \in Rows}
    /\ run = NoDict
    /\ pair = NoDict /\ measured = NoDict
    /\ params = NoDict /\ download = NoDict

\* enhanced = self._prototype_enhancement(image)
Enhance ==
    /\ run = NoDict
    /\ \E lift \in ClaheLifts, cast \in NanCasts :
            run' = PrototypeEnhancement(buffer, lift, cast)
    /\ UNCHANGED <<svars, dets, report, summary, buffer, pair, measured,
                 params, download>>

NextEnhance == Enhance

SpecEnhance == InitEnhance /\ [][NextEnhance]_vars

(***************************************************************************)
(* Buffers as objects.  A heap is the sequence of the arrays allocated so  *)
(* far, a reference is an index into it.  Each stage is given the heap and *)
(* the reference of its argument and yields [heap, ref]: the heap when it  *)
(* returns and the reference it returns.                                   *)
(***************************************************************************)
\* a numpy expression or a cv2 function that returns its result: a new array
New(heap, content) == [heap |-> Append(heap, content), ref |-> Len(heap) + 1]

\* variant: "enhanced = image", a second name for the same array
CopyAlias(heap, image) == [heap |-> heap, ref |-> image]

\* image.copy()
Copy(heap, image) == New(heap, heap[image])

\* array[...] = value, and the cv2 functions that draw on their argument
Store(heap, ref, content) == [heap EXCEPT ![ref] = content]

\* _enhance_red_channel: enhanced = image.copy(), then the assignment to
\* enhanced[:, :, 2]
EnhanceRedChannelCall(heap, image) ==
    LET enhanced == Copy(heap, image)
    IN  [heap |-> Store(enhanced.heap, enhanced.ref,
                        _enhance_red_channel(enhanced.heap[enhanced.ref])),
         ref |-> enhanced.ref]

\* _apply_clahe: lab is a new array, written in place, and the returned
\* array is the result of the last division
ApplyClaheCall(heap, image, lift) ==
    LET lab == New(heap, ToUint8Buffer(heap[image], 0))
    IN  New(lab.heap, _apply_clahe(heap[image], lift))

\* _simple_dehaze: every operand is the result of an expression; np.clip
\* without out= returns a new array
SimpleDehazeCall(heap, image) == New(heap, _simple_dehaze(heap[image]))

\* _sharpen_image: image_uint8 and sharpened are new arrays
SharpenImageCall(heap, image, cast) ==
    LET image_uint8 == New(heap, ToUint8Buffer(heap[image], cast))
    IN  New(image_uint8.heap, _sharpen_image(heap[image], cast))

colors ==
    << <<"submarine", <<0, 0, 255>> >>, <<"mine", <<0, 165, 255>> >>,
       <<"diver", <<0, 255, 255>> >>, <<"drone", <<255, 0, 0>> >>,
       <<"suspicious_object", <<128, 0, 128>> >> >>

\* cv2.rectangle of one detection on a one-row image: the top edge of a box
\* that starts in row 0 covers the columns x1..x2 (0-based); its label lies
\* above the image
DrawDetection(content, detection) ==
    LET color == DictGet(colors, detection.threat_type, <<255, 255, 255>>)
        bbox == detection.bbox
    IN  [y \in DOMAIN content |->
            [x \in DOMAIN content[y] |->
                IF bbox.y1 = 0 /\ bbox.x1 <= x - 1 /\ x - 1 <= bbox.x2
                THEN color ELSE content[y][x]]]

RECURSIVE DrawDetections(_, _)
DrawDetections(content, detections) ==
    IF detections = <<>> THEN content
    ELSE DrawDetections(DrawDetection(content, Head(detections)),
                        Tail(detections))

\* _create_annotated_image: annotated = image.copy(), then every detection
\* is drawn on annotated, which is written to the file
CreateAnnotatedImageCall(heap, image, detections) ==
    LET annotated == Copy(heap, image)
    IN  [heap |-> Store(annotated.heap, annotated.ref,
                        DrawDetections(annotated.heap[annotated.ref],
                                       detections)),
         ref |-> annotated.ref]

\* one call as the caller sees it: the heap before it and when it returns
FrameCall(stage, heap, image, returned) ==
    [stage |-> stage, input |-> image, output |-> returned.ref,
     before |-> heap, after |-> returned.heap]

\* _prototype_enhancement on a heap that holds the image at `image`:
\* [calls, heap, result]
PrototypeEnhancementCalls(heap, image, lift, cast) ==
    LET image_float == New(heap, ToFloatBuffer(heap[image]))
        red_enhanced == EnhanceRedChannelCall(image_float.heap, image_float.ref)
        contrast_enhanced ==
            ApplyClaheCall(red_enhanced.heap, red_enhanced.ref, lift)
        dehazed == SimpleDehazeCall(contrast_enhanced.heap, contrast_enhanced.ref)
        sharpened == SharpenImageCall(dehazed.heap, dehazed.ref, cast)
        result == New(sharpened.heap, Rescale(sharpened.heap[sharpened.ref], cast))
    IN  [calls |->
            << FrameCall("_enhance_red_channel", image_float.heap,
                         image_float.ref, red_enhanced),
               FrameCall("_apply_clahe", red_enhanced.heap,
                         red_enhanced.ref, contrast_enhanced),
               FrameCall("_simple_dehaze", contrast_enhanced.heap,
                         contrast_enhanced.ref, dehazed),
               FrameCall("_sharpen_image", dehazed.heap, dehazed.ref,
                         sharpened) >>,
         heap |-> result.heap,
         result |-> result.ref]

(***************************************************************************)
(* The stages and the annotation on a heap: an image of Rows is enhanced   *)
(* and the result, or the image itself, is annotated                       *)
(***************************************************************************)
\* the detection lists drawn: none, one pixel wide, two pixels wide
StripDetections ==
    { <<>>,
      << Detection("mine", 80, "high", 0, 0, 0, 0) >>,
      << Detection("diver", 60, "high", 0, 0, 1, 0),
         Detection("kelp", 55, "low", 1, 0, 1, 0) >> }

\* enhanced = self._prototype_enhancement(image)
EnhanceFrames ==
    /\ run = NoDict
    /\ \E lift \in ClaheLifts, cast \in NanCasts :
            run' = PrototypeEnhancementCalls(<<buffer>>, 1, lift, cast)
    /\ UNCHANGED <<svars, dets, report, summary, buffer, pair, measured,
                 params, download>>

\* self._create_annotated_image(image, image_path, detections) on the
\* uploaded image
AnnotateFrames ==
    /\ run = NoDict
    /\ \E detections \in StripDetections :
            run' = [calls |->
                        << FrameCall("_create_annotated_image", <<buffer>>, 1,
                              CreateAnnotatedImageCall(<<buffer>>, 1, detections)) >>,
                    heap |-> CreateAnnotatedImageCall(<<buffer>>, 1, detections).heap,
                    result |-> 1]
    /\ UNCHANGED <<svars, dets, report, summary, buffer, pair, measured,
                 params, download>>

\* the same on the enhanced image, as the unified route does
AnnotateEnhancedFrames ==
    /\ run # NoDict
    /\ Len(run.calls) = 4
    /\ \E detections \in StripDetections :
            LET returned ==
                    CreateAnnotatedImageCall(run.heap, run.result, detections)
            IN  run' = [run EXCEPT
                          !.calls = Append(@,
                              FrameCall("_create_annotated_image", run.heap,
                                        run.result, returned)),
                          !.heap = returned.heap]
    /\ UNCHANGED <<svars, dets, report, summary, buffer, pair, measured,
                 params, download>>

NextFrames == EnhanceFrames \/ AnnotateFrames \/ AnnotateEnhancedFrames

SpecFrames == InitEnhance /\ [][NextFrames]_vars

(***************************************************************************)
(* POST /detect of src/sih (routes/detection.py, detect_threats): the      *)
(* parameters of the request and the call of the detector.  An optional    *)
(* parameter is None or Given(value); confidences and thresholds are in    *)
(* hundredths.                                                             *)
(***************************************************************************)
None == [none |-> TRUE]

Given(value) == [none |-> FALSE, value |-> value]

\* "a if a is not None else (b if b is not None else default)"
FormOrQuery(form, query, default) ==
    IF ~form.none THEN form
    ELSE IF ~query.none THEN query
    ELSE Given(default)

final_confidence(request) ==
    FormOrQuery(request.confidence, request.confidence_query, 50)

final_nms_threshold(request) ==
    FormOrQuery(request.nms_threshold, request.nms_threshold_query, 40)

final_max_detections(request) ==
    FormOrQuery(request.max_detections, request.max_detections_query, 20)

\* detection_service.detect_threats(detection_image, confidence=confidence,
\* nms_threshold=nms_threshold, max_detections=max_detections): the keyword
\* arguments of the call
DetectorArguments(request) ==
    [confidence |-> request.confidence,
     nms_threshold |-> request.nms_threshold,
     max_detections |-> request.max_detections]

\* the requests: each parameter absent or present as a form field, and
\* absent or present in the query string with another value
DetectRequests ==
    [confidence : {None, Given(70)},
     nms_threshold : {None, Given(60)},
     max_detections : {None, Given(5)},
     confidence_query : {None, Given(30)},
     nms_threshold_query : {None, Given(45)},
     max_detections_query : {None, Given(10)}]

InitParams ==
    /\ InitServices
    /\ req = [r \in Slots |-> IdleReq]
    /\ dets = <<>> /\ report = NoDict /\ summary = NoDict
    /\ buffer = <<>> /\ run = NoDict
    /\ pair = NoDict /\ measured = NoDict
    /\ params \in [request : DetectRequests, passed : {None}]
    /\ download = NoDict

\* the handler up to the call of the detector
DetectWithParams ==
    /\ params.passed = None
    /\ params' = [params EXCEPT !.passed = DetectorArguments(params.request)]
    /\ UNCHANGED <<svars, dets, report, summary, buffer, run, pair, measured,
                   download>>

NextParams == DetectWithParams

SpecParams == InitParams /\ [][NextParams]_vars

(***************************************************************************)
(* POST /download/{model_id} and GET /download/status/{download_id} of     *)
(* src/sih (routes/models.py).  A string is the sequence of its pieces     *)
(* between underscores; a piece is text, the %Y%m%d of a time or its       *)
(* %H%M%S.  Times are whole seconds.                                       *)
(***************************************************************************)
Text(text) == [kind |-> "text", text |-> text, n |-> 0]

SecondsPerDay == 86400

\* datetime.strftime('%Y%m%d_%H%M%S')
StrfTime(t) ==
    << [kind |-> "Ymd", text |-> "", n |-> t \div SecondsPerDay],
       [kind |-> "HMS", text |-> "", n |-> t % SecondsPerDay] >>

\* datetime.strptime(string, "%Y%m%d_%H%M%S"): [ok, t]; ValueError unless
\* the string is a date, an underscore and a time
StrpTime(string) ==
    IF Len(string) = 2 /\ string[1].kind = "Ymd" /\ string[2].kind = "HMS"
    THEN [ok |-> TRUE, t |-> string[1].n * SecondsPerDay + string[2].n]
    ELSE [ok |-> FALSE, t |-> 0]

\* the ids of AVAILABLE_MODELS handed to the route, and one that is none
ModelIds ==
    { <<Text("gan"), Text("v2"), Text("1"), Text("full")>>,
      <<Text("yolo"), Text("v11"), Text("underwater"), Text("nano")>>,
      <<Text("unet")>> }

AvailableModelIds == ModelIds \ { <<Text("unet")>> }

\* f"dl_{model_id}_{datetime.now().strftime('%Y%m%d_%H%M%S')}"
DownloadId(model_id, now) == <<Text("dl")>> \o model_id \o StrfTime(now)

\* download_model: 404 for an unknown model, else the download_info
download_model(model_id, now) ==
    IF model_id \notin AvailableModelIds
    THEN [status_code |-> 404, download_id |-> <<>>]
    ELSE [status_code |-> 200, download_id |-> DownloadId(model_id, now)]

get_download_step(status, progress) ==
    IF status = "downloading"
    THEN IF progress < 50 THEN "Downloading model weights..."
         ELSE "Downloading model configuration..."
    ELSE IF status = "optimizing" THEN "Optimizing for target device..."
    ELSE IF status = "completed" THEN "Download completed successfully"
    ELSE "Preparing download..."

\* get_download_status: the timestamp is taken to be what follows the last
\* underscore of the id
get_download_status(download_id, now) ==
    LET timestamp_part == <<download_id[Len(download_id)]>>
        download_time == StrpTime(timestamp_part)
        parsed == Len(download_id) > 1 /\ download_time.ok
        elapsed == now - download_time.t
        status == IF ~parsed THEN "completed"
                  ELSE IF elapsed < 30 THEN "downloading"
                  ELSE IF elapsed < 40 THEN "optimizing"
                  ELSE "completed"
        progress == IF parsed /\ elapsed < 30
                    THEN (IF (elapsed * 333) \div 100 < 100
                          THEN (elapsed * 333) \div 100 ELSE 100)
                    ELSE 100
    IN  [download_id |-> download_id,
         status |-> status,
         progress |-> progress,
         current_step |-> get_download_step(status, progress),
         estimated_remaining |->
            IF parsed /\ 45 - elapsed > 0 THEN 45 - elapsed ELSE 0]

\* the times of day at which a download is started
StartTimes == {0, 43170}

InitDownload ==
    /\ InitServices
    /\ req = [r \in Slots |-> IdleReq]
    /\ dets = <<>> /\ report = NoDict /\ summary = NoDict
    /\ buffer = <<>> /\ run = NoDict
    /\ pair = NoDict /\ measured = NoDict
    /\ params = NoDict
    /\ \E t \in StartTimes :
          download = [now |-> t, issued |-> t, response |-> NoDict,
                      reported |-> NoDict]

\* POST /download/{model_id}
DownloadModel ==
    /\ download.response = NoDict
    /\ \E model_id \in ModelIds :
          download' = [download EXCEPT
                         !.issued = download.now,
                         !.response = download_model(model_id, download.now)]
    /\ UNCHANGED <<svars, dets, report, summary, buffer, run, pair, measured,
                   params>>

\* GET /download/status/{download_id} with the id the server issued
DownloadStatus ==
    /\ download.response # NoDict
    /\ download.response.status_code = 200
    /\ download' = [download EXCEPT
                      !.reported =
                         get_download_status(download.response.download_id,
                                             download.now)]
    /\ UNCHANGED <<svars, dets, report, summary, buffer, run, pair, measured,
                   params>>

\* a second passes
DownloadTick ==
    /\ download.response # NoDict
    /\ download.now - download.issued < MaxElapsed
    /\ download' = [download EXCEPT !.now = @ + 1, !.reported = NoDict]
    /\ UNCHANGED <<svars, dets, report, summary, buffer, run, pair, measured,
                   params>>

NextDownload == DownloadModel \/ DownloadStatus \/ DownloadTick

SpecDownload == InitDownload /\ [][NextDownload]_vars

(***************************************************************************)
(* calculate_metrics on its own: every pair of files of MetricFiles        *)
(***************************************************************************)
\* the sides of the decodable images: below, at and above the ssim window
Sides == {4, 7, 8}

MetricImage(id, width, height) ==
    [id |-> id, readable |-> TRUE, width |-> width, height |-> height,
     boxes |-> <<>>, overlay |-> <<>>, stages |-> <<>>]

MetricFiles ==
    {ImgCorrupt}
    \cup {MetricImage(id, w, h) : id \in {"x", "y"}, w \in Sides, h \in Sides}

OriginalPath == [dir |-> "uploads", ts |-> 0, name |-> <<"m">>, ext |-> ".png"]

InitMetrics ==
    /\ InitServices
    /\ req = [r \in Slots |-> IdleReq]
    /\ dets = <<>> /\ report = NoDict /\ summary = NoDict
    /\ buffer = <<>> /\ run = NoDict
    /\ params = NoDict /\ download = NoDict
    /\ pair \in [original : MetricFiles, enhanced : MetricFiles]
    /\ measured = NoDict

\* metrics = await enhancement_service.calculate_metrics(original, enhanced)
Measure ==
    /\ measured = NoDict
    /\ LET enhanced_path == TaggedPath(OriginalPath, "_enhanced")
           dsk == (OriginalPath :> pair.original)
                  @@ (enhanced_path :> pair.enhanced)
       IN  measured' =
              [result |-> calculate_metrics(dsk, OriginalPath, enhanced_path),
               compared |-> _calculate_metrics_sync(dsk, OriginalPath,
                                                    enhanced_path).compared]
    /\ UNCHANGED <<svars, dets, report, summary, buffer, run, pair,
                 params, download>>

NextMetrics == Measure

SpecMetrics == InitMetrics /\ [][NextMetrics]_vars

(***************************************************************************)
(* Properties of the pattern analysis (specification SpecAnalyze)           *)
(***************************************************************************)
Analyzed == report # NoDict

TypesOf(ds) == {ds[i].threat_type : i \in DOMAIN ds}
SeveritiesOf(ds) == {ds[i].severity : i \in DOMAIN ds}
CountType(ds, t) == Cardinality({i \in DOMAIN ds : ds[i].threat_type = t})
CountSeverity(ds, s) == Cardinality({i \in DOMAIN ds : ds[i].severity = s})
FirstIndex(ds, t) == Min({i \in DOMAIN ds : ds[i].threat_type = t})

\* the keys of a dict are pairwise different
UniqueKeys(d) == \A i, j \in DOMAIN d : d[i][1] = d[j][1] => i = j

\* C5: for a non-empty detection list most_common_threat is a type of maximal
\* count, and among the types of maximal count the one that occurs first in
\* the list
C5_MostCommonThreat ==
    (Analyzed /\ dets # <<>>) =>
        LET t == report.most_common_threat.type
        IN  /\ t \in TypesOf(dets)
            /\ report.most_common_threat.count = CountType(dets, t)
            /\ \A u \in TypesOf(dets) :
                /\ CountType(dets, u) <= CountType(dets, t)
                /\ CountType(dets, u) = CountType(dets, t)
                        => FirstIndex(dets, t) <= FirstIndex(dets, u)

\* a tie for the maximum between two types has been analysed
C5_Witness ==
    /\ Analyzed
    /\ \E t, u \in TypesOf(dets) :
        /\ t # u
        /\ CountType(dets, t) = CountType(dets, u)
        /\ \A v \in TypesOf(dets) : CountType(dets, v) <= CountType(dets, t)
        /\ FirstIndex(dets, u) < FirstIndex(dets, t)
        /\ report.most_common_threat.type = u

\* C6: for a non-empty detection list risk_level is "high" when some
\* detection is critical, else "medium" when some detection is high, else
\* "low"
C6_RiskLevel ==
    (Analyzed /\ dets # <<>>) =>
        report.risk_level =
            IF "critical" \in SeveritiesOf(dets) THEN "high"
            ELSE IF "high" \in SeveritiesOf(dets) THEN "medium"
            ELSE "low"

\* a list with a high but no critical detection has been analysed
C6_Witness ==
    /\ Analyzed
    /\ "high" \in SeveritiesOf(dets)
    /\ "critical" \notin SeveritiesOf(dets)
    /\ report.risk_level = "medium"

\* the entries a report carries under a key: none when the key is absent
Entries(rep, key) == IF key \in DOMAIN rep THEN rep[key] ELSE EmptyDict

\* C7: for the empty detection list the report says that no threats were
\* detected, carries no entry in threat_distribution or severity_distribution
\* and no risk_level
C7_EmptyReport ==
    (Analyzed /\ dets = <<>>) =>
        /\ "pattern_summary" \in DOMAIN report
        /\ report.pattern_summary = "No threats detected"
        /\ Entries(report, "threat_distribution") = EmptyDict
        /\ Entries(report, "severity_distribution") = EmptyDict
        /\ "risk_level" \notin DOMAIN report

\* the empty list has been analysed
C7_Witness == Analyzed /\ dets = <<>>

\* C8: for a non-empty detection list threat_distribution counts the
\* detections of each occurring type (and has no other key),
\* severity_distribution counts the detections of each severity and always
\* has the keys critical, high and medium, and both sum to the list's length
C8_Distributions ==
    (Analyzed /\ dets # <<>>) =>
        LET td == report.threat_distribution
            sd == report.severity_distribution
        IN  /\ UniqueKeys(td) /\ UniqueKeys(sd)
            /\ DictKeys(td) = TypesOf(dets)
            /\ \A t \in DictKeys(td) : DictGet(td, t, -1) = CountType(dets, t)
            /\ DictKeys(sd) = {"critical", "high", "medium"} \cup SeveritiesOf(dets)
            /\ \A sv \in DictKeys(sd) : DictGet(sd, sv, -1) = CountSeverity(dets, sv)
            /\ DictSum(td) = Len(dets)
            /\ DictSum(sd) = Len(dets)

\* a list without a medium detection has been analysed: the key is there, at 0
C8_Witness ==
    /\ Analyzed /\ dets # <<>>
    /\ "medium" \notin SeveritiesOf(dets)
    /\ DictHas(report.severity_distribution, "medium")
    /\ DictGet(report.severity_distribution, "medium", -1) = 0

(***************************************************************************)
(* Properties of the routes and of the detection service                   *)
(***************************************************************************)
\* the service object a route calls
InstanceOf(route) == IF route = "unified" THEN "unified" ELSE "detection"

\* the requests whose latest detect_threats call has returned
Detected == {r \in DOMAIN req : req[r].detection_results # NoDict}

ModelOf(r) == model[InstanceOf(req[r].route)]

ZeroSummary ==
    [total_threats |-> 0, critical_threats |-> 0, high_threats |-> 0,
     medium_threats |-> 0, threat_types |-> EmptyDict]

ImageFiles(files) == {j \in DOMAIN files : files[j].content_type_image}

\* C1: an analyze_threats batch in which an image fails still completes: the
\* response is a success and holds one entry per image file of the batch
C1_BatchSurvivesFailure ==
    \A r \in DOMAIN req :
        (req[r].route = "analyze" /\ req[r].pc = "done") =>
            /\ req[r].response.status = 200
            /\ Len(req[r].response.body.image_results)
                    = Cardinality(ImageFiles(req[r].files))

\* C2: no path is written by two different invocations
C2_UniquePaths ==
    \A p \in DOMAIN writers : Cardinality(writers[p]) <= 1

\* C3: with no model loaded, detection on a readable image returns the
\* empty result: no error, no detections, a summary of zeros
C3_UnavailableDetectorEmpty ==
    \A r \in Detected :
        (ModelOf(r) = "None" /\ req[r].detect_input.readable) =>
            LET res == req[r].detection_results
            IN  /\ "error" \notin DOMAIN res
                /\ res.detections = <<>>
                /\ res.total_detections = 0
                /\ res.threat_summary = ZeroSummary

\* C4: with a model loaded, an image for which the model reports no box
\* yields no error, a summary of zeros and an annotated image that is the
\* input image with nothing drawn on it
C4_EmptyRawDetections ==
    \A r \in Detected :
        (/\ ModelOf(r) # "None"
         /\ req[r].detect_input.readable
         /\ RunModel(req[r].detect_input, req[r].confidence_threshold) = <<>>) =>
            LET res == req[r].detection_results
            IN  /\ "error" \notin DOMAIN res
                /\ res.threat_summary = ZeroSummary
                /\ res.annotated_image # NonePath
                /\ res.annotated_image \in DOMAIN disk
                /\ disk[res.annotated_image] = req[r].detect_input

\* the fixed severity table of the specification
TableSeverity(threat_type) ==
    IF threat_type \in {"submarine", "mine"} THEN "critical"
    ELSE IF threat_type \in {"diver", "drone"} THEN "high"
    ELSE IF threat_type = "suspicious_object" THEN "medium"
    ELSE "low"

\* C9: every detection the service returns, from the model or from the
\* prototype generator, carries the severity the fixed table gives its
\* threat_type
C9_SeverityFromType ==
    \A r \in Detected :
        \A i \in DOMAIN req[r].detection_results.detections :
            LET d == req[r].detection_results.detections[i]
            IN  d.severity = TableSeverity(d.threat_type)

\* the model has returned a detection of confidence 0.8 or more whose
\* severity is the one of its type
C9_Witness ==
    \E r \in Detected :
        /\ ModelOf(r) # "None"
        /\ \E i \in DOMAIN req[r].detection_results.detections :
            LET d == req[r].detection_results.detections[i]
            IN  d.confidence >= 80 /\ d.severity = "medium"

\* the lookup of the threat taxonomy, unknown ids falling back
TaxonomyType(class_id) == DictGet(threat_classes, class_id, "suspicious_object")

\* C10: every detection built from a model box has the threat_type the
\* taxonomy table gives the box's class_id
C10_ClassIdLookup ==
    \A r \in Detected :
        (ModelOf(r) # "None" /\ "error" \notin DOMAIN req[r].detection_results) =>
            LET raw == RunModel(req[r].detect_input, req[r].confidence_threshold)
                ds == req[r].detection_results.detections
            IN  /\ Len(ds) = Len(raw)
                /\ \A i \in DOMAIN ds :
                        ds[i].threat_type = TaxonomyType(raw[i].class_id)

\* C11: every detection the service returns has x1 < x2, y1 < y2 and
\* area = (x2 - x1) * (y2 - y1) >= 0
C11_BoxInvariant ==
    \A r \in Detected :
        \A i \in DOMAIN req[r].detection_results.detections :
            LET d == req[r].detection_results.detections[i]
            IN  /\ d.bbox.x1 < d.bbox.x2
                /\ d.bbox.y1 < d.bbox.y2
                /\ d.area = (d.bbox.x2 - d.bbox.x1) * (d.bbox.y2 - d.bbox.y1)
                /\ d.area >= 0

(***************************************************************************)
(* Properties of the threat summary (specification SpecSummary)            *)
(***************************************************************************)
Summarized == summary # NoDict

\* C12: the summary of a detection list has total_threats equal to the
\* list's length, critical/high/medium equal to the numbers of detections of
\* that severity, threat_types counting the detections of each occurring type
\* with exactly those types as keys; so critical + high + medium <= total and
\* the threat_types counts sum to total
C12_SummaryTallies ==
    Summarized =>
        /\ summary.total_threats = Len(dets)
        /\ summary.critical_threats = CountSeverity(dets, "critical")
        /\ summary.high_threats = CountSeverity(dets, "high")
        /\ summary.medium_threats = CountSeverity(dets, "medium")
        /\ UniqueKeys(summary.threat_types)
        /\ DictKeys(summary.threat_types) = TypesOf(dets)
        /\ \A t \in TypesOf(dets) :
                DictGet(summary.threat_types, t, -1) = CountType(dets, t)
        /\ summary.critical_threats + summary.high_threats
                + summary.medium_threats <= summary.total_threats
        /\ DictSum(summary.threat_types) = summary.total_threats

\* a list with a detection of severity "low" and a repeated type has been
\* summarised: the three severity counts stay below the total
C12_Witness ==
    /\ Summarized
    /\ "low" \in SeveritiesOf(dets)
    /\ \E t \in TypesOf(dets) : CountType(dets, t) >= 2
    /\ summary.critical_threats + summary.high_threats
            + summary.medium_threats < summary.total_threats

(***************************************************************************)
(* Properties of the batch routes                                          *)
(***************************************************************************)
\* the image files of a batch, in submission order
RECURSIVE ImageFilesInOrder(_)
ImageFilesInOrder(files) ==
    IF files = <<>> THEN <<>>
    ELSE (IF Head(files).content_type_image THEN <<Head(files)>> ELSE <<>>)
         \o ImageFilesInOrder(Tail(files))

RECURSIVE DetectionsInOrder(_)
DetectionsInOrder(image_results) ==
    IF image_results = <<>> THEN <<>>
    ELSE Head(image_results).detections \o DetectionsInOrder(Tail(image_results))

RECURSIVE SumDetectionCounts(_)
SumDetectionCounts(image_results) ==
    IF image_results = <<>> THEN 0
    ELSE Len(Head(image_results).detections)
         + SumDetectionCounts(Tail(image_results))

\* the analyze_threats requests that have aggregated
Aggregated ==
    {r \in DOMAIN req : /\ req[r].route = "analyze" /\ req[r].pc = "done"
                        /\ "pattern_analysis" \in DOMAIN req[r].response.body}

\* C13: when an analyze_threats batch aggregates, the detection call of every
\* image file of the batch has completed, the aggregated list is the
\* concatenation in file order of the per-image detections, and
\* total_threats is the sum of the per-image detection counts
C13_AggregateAfterAll ==
    /\ \A r \in DOMAIN req :
            (req[r].route = "analyze" /\ req[r].pc # "done") =>
                req[r].response = NoResponse
    /\ \A r \in Aggregated :
        LET body == req[r].response.body
            images == ImageFilesInOrder(req[r].files)
        IN  /\ Len(body.image_results) = Len(images)
            /\ \A k \in DOMAIN images :
                    body.image_results[k].filename = images[k].filename
            /\ req[r].all_detections = DetectionsInOrder(body.image_results)
            /\ body.pattern_analysis =
                    analyze_threat_patterns_sync(
                        DetectionsInOrder(body.image_results))
            /\ body.total_threats = SumDetectionCounts(body.image_results)
            /\ body.total_images = Len(images)

\* a batch of two images with different, non-empty detection lists has
\* aggregated
C13_Witness ==
    \E r \in Aggregated :
        LET results == req[r].response.body.image_results
        IN  /\ Len(results) = 2
            /\ results[1].detections # <<>>
            /\ results[2].detections # <<>>
            /\ results[1].detections # results[2].detections
            /\ req[r].response.body.total_threats
                    = Len(results[1].detections) + Len(results[2].detections)

\* the finished requests of the two per-item batch routes
BatchRoutes == {"batch_unified", "batch_enhance"}

BatchDone ==
    {r \in DOMAIN req : req[r].route \in BatchRoutes /\ req[r].pc = "done"}

\* the file name an entry of batch_results carries
EntryName(entry) ==
    IF "filename" \in DOMAIN entry THEN entry.filename
    ELSE entry.original_filename

\* C14: the response of process_batch_unified and of batch_enhance has one
\* entry per submitted file, in submission order, carrying the file's name
\* and marked success or error; a file that is not an image, or whose
\* processing ended in an exception, is marked error, and the batch is
\* answered all the same
C14_PerItemResults ==
    \A r \in BatchDone :
        /\ req[r].response.status = 200
        /\ LET results == req[r].response.body.batch_results
               files == req[r].files
           IN  /\ Len(results) = Len(files)
               /\ \A k \in DOMAIN files :
                    /\ EntryName(results[k]) = files[k].filename
                    /\ results[k].status \in {"success", "error"}
                    /\ ~files[k].content_type_image
                            => results[k].status = "error"
                    /\ "error" \in DOMAIN results[k]
                            => results[k].status = "error"

\* the files invocation <<r, k>> has written under enhanced/
EnhancedWrites(r, k) ==
    {p \in DOMAIN writers : p.dir = "enhanced" /\ <<r, k>> \in writers[p]}

Unreadable(file) == file.content_type_image /\ ~file.content.readable
Readable(file) == file.content_type_image /\ file.content.readable

\* the path of the enhanced image of a file uploaded at `timestamp`
EnhancedPathOf(file, timestamp) ==
    TaggedPath(UploadPath(timestamp, file), "_enhanced")

\* what enhancing, resp. enhancing and detecting, gives for a file on its own
AloneEnhanced(file, timestamp) ==
    EnhanceBatchEntry(file, EnhancedPathOf(file, timestamp), timestamp)

AloneUnified(file, timestamp, mdl, confidence_threshold, rnd) ==
    LET path == EnhancedPathOf(file, timestamp)
        dsk == (path :> _prototype_enhancement(file.content))
    IN  UnifiedBatchEntry(file, path, timestamp,
            detect_threats(mdl, dsk, path, confidence_threshold, rnd).result)

\* C15: an image file that cannot be read fails alone: process_unified
\* answers it with an error and writes no enhanced file; in a batch its
\* entry is an error, its invocation writes no enhanced file, and every
\* readable sibling has the entry it would have on its own
C15_ImageLoadError ==
    /\ \A r \in DOMAIN req :
            (/\ req[r].route = "unified" /\ req[r].pc = "done"
             /\ Unreadable(req[r].files[1])) =>
                /\ req[r].response.status = 500
                /\ EnhancedWrites(r, 1) = {}
    /\ \A r \in BatchDone :
        LET results == req[r].response.body.batch_results
            files == req[r].files
        IN  \A k \in DOMAIN files :
              /\ Unreadable(files[k]) =>
                    /\ results[k] = ItemError(files[k])
                    /\ EnhancedWrites(r, k) = {}
              /\ Readable(files[k]) =>
                    /\ "timestamp" \in DOMAIN results[k]
                    /\ EnhancedPathOf(files[k], results[k].timestamp)
                            \in EnhancedWrites(r, k)
                    /\ req[r].route = "batch_enhance" =>
                            results[k] = AloneEnhanced(files[k],
                                                       results[k].timestamp)
                    /\ req[r].route = "batch_unified" =>
                            \E rnd \in RandomDraws :
                                results[k] =
                                    AloneUnified(files[k], results[k].timestamp,
                                        model["unified"],
                                        req[r].confidence_threshold, rnd)

\* a batch with an unreadable image before a readable one of the same name
\* has been answered, on each of the two routes
C15_Witness ==
    \E r \in BatchDone :
        /\ Len(req[r].files) = 2
        /\ Unreadable(req[r].files[1]) /\ Readable(req[r].files[2])
        /\ req[r].files[1].filename = req[r].files[2].filename
        /\ req[r].response.body.batch_results[1].status = "error"
        /\ req[r].response.body.batch_results[2].status = "success"

(***************************************************************************)
(* Properties of the quality metrics (specification SpecMetrics)           *)
(***************************************************************************)
Measured == measured # NoDict

MetricKeys == {"psnr", "ssim", "uiqm"}

CompleteRecord(result) == DOMAIN result = MetricKeys
ErrorRecord(result) == "error" \in DOMAIN result /\ DOMAIN result \cap MetricKeys = {}

Decodable(image) == image.readable /\ image.width > 0 /\ image.height > 0

\* C16: calculate_metrics always returns, either a record with all of psnr,
\* ssim and uiqm or an error record with none of them, and an error record
\* whenever one of the two files does not decode
C16_MetricsAllOrError ==
    Measured =>
        /\ CompleteRecord(measured.result) \/ ErrorRecord(measured.result)
        /\ ~(CompleteRecord(measured.result) /\ ErrorRecord(measured.result))
        /\ (~Decodable(pair.original) \/ ~Decodable(pair.enhanced))
                => ErrorRecord(measured.result)

\* the metrics of a pair whose second file does not decode, and of a pair
\* too small for the ssim window, have been asked for
C16_Witness ==
    /\ Measured
    /\ ErrorRecord(measured.result)
    /\ Decodable(pair.original)
    /\ ~Decodable(pair.enhanced) \/ SsimRaises(pair.original)

\* C17: for two decodable images of different dimensions the enhanced image
\* is resized to the original's width and height and the result is a
\* complete record
C17_ResizeThenSucceed ==
    (/\ Measured
     /\ Decodable(pair.original) /\ Decodable(pair.enhanced)
     /\ <<pair.original.width, pair.original.height>>
            # <<pair.enhanced.width, pair.enhanced.height>>) =>
        /\ measured.compared =
                << <<pair.original.width, pair.original.height>>,
                   <<pair.original.width, pair.original.height>> >>
        /\ CompleteRecord(measured.result)

(***************************************************************************)
(* Properties of the enhancement (specification SpecEnhance)               *)
(***************************************************************************)
Enhanced == run # NoDict

StageOrder ==
    <<"_enhance_red_channel", "_apply_clahe", "_simple_dehaze", "_sharpen_image">>

\* C18: the enhancement makes exactly four stage calls, colour restoration,
\* contrast enhancement, dehazing and sharpening in this order, the first on
\* the image scaled to [0, 1], each later one on the output of the one
\* before, and returns the last output rescaled to 8 bit
C18_StageOrder ==
    Enhanced =>
        /\ Len(run.calls) = 4
        /\ \A k \in 1..4 : run.calls[k].stage = StageOrder[k]
        /\ run.calls[1].input = ToFloatBuffer(buffer)
        /\ \A k \in 1..3 : run.calls[k + 1].input = run.calls[k].output
        /\ \E cast \in NanCasts :
                run.result = Rescale(run.calls[4].output, cast)

\* an image has been enhanced in which contrast enhancement and dehazing
\* each change their input
C18_Witness ==
    /\ Enhanced
    /\ run.calls[2].output # run.calls[2].input
    /\ run.calls[3].output # run.calls[3].input

\* a defined sample of [0, 1]
InUnit(a) == ~a.nan /\ 0 <= a.n /\ a.n <= a.d

\* C19: every sample a stage hands on is a defined value of [0, 1], and
\* every sample of the returned image is in [0, 255]
C19_SamplesInRange ==
    Enhanced =>
        /\ \A k \in 1..4 : \A a \in SamplesOf(run.calls[k].output) : InUnit(a)
        /\ \A v \in SamplesOf(run.result) : 0 <= v /\ v <= 255

\* C20: every transmission value the dehazer uses is at least 0.1 and every
\* sample it returns is a defined value of [0, 1]
C20_DehazeFloor ==
    Enhanced =>
        /\ \A y \in DOMAIN run.transmission :
             \A x \in DOMAIN run.transmission[y] :
                LET t == run.transmission[y][x]
                IN  ~t.nan /\ ~FLess(t, Frac(1, 10))
        /\ \A a \in SamplesOf(run.calls[3].output) : InUnit(a)

\* C21: the colour restoration returns, for the boosted channel, 1.5 times
\* the input sample clipped to [0, 1], so each boosted sample is at least its
\* input sample and at most 1, and it returns the two other channels as they
\* were
C21_RedBoost ==
    Enhanced =>
        LET input == run.calls[1].input
            output == run.calls[1].output
        IN  \A y \in DOMAIN input : \A x \in DOMAIN input[y] :
                LET a == input[y][x][3]
                    b == output[y][x][3]
                IN  /\ ~b.nan
                    /\ IF 3 * a.n >= 2 * a.d THEN b = One
                       ELSE 2 * b.n * a.d = 3 * a.n * b.d
                    /\ ~FLess(b, a)
                    /\ ~FLess(One, b)
                    /\ output[y][x][1] = input[y][x][1]
                    /\ output[y][x][2] = input[y][x][2]

\* an image has been restored in which one red sample was clipped to 1 and
\* another was raised to a value below 1
C21_Witness ==
    /\ Enhanced
    /\ LET input == run.calls[1].input
           output == run.calls[1].output
       IN  \E x1, x2 \in DOMAIN input[1] :
              /\ FLess(input[1][x1][3], One) /\ output[1][x1][3] = One
              /\ FLess(input[1][x2][3], output[1][x2][3])
              /\ FLess(output[1][x2][3], One)

(***************************************************************************)
(* Properties of the buffers (specification SpecFrames)                    *)
(***************************************************************************)
\* C22: when a stage of the enhancement or the annotation returns, every
\* array that existed when it was called, its argument among them, holds the
\* samples it held then, and the array it returns is a new one
C22_InputsUntouched ==
    run # NoDict =>
        \A k \in DOMAIN run.calls :
            LET call == run.calls[k]
            IN  /\ call.output # call.input
                /\ call.output \notin DOMAIN call.before
                /\ \A ref \in DOMAIN call.before :
                        call.after[ref] = call.before[ref]

\* an image has been enhanced and annotated, and every one of the five calls
\* returned samples that differ from those of its argument
C22_Witness ==
    /\ run # NoDict
    /\ Len(run.calls) = 5
    /\ \A k \in 1..5 :
            LET call == run.calls[k]
            IN  call.after[call.output] # call.before[call.input]

\* C24: the metrics of a decodable image against an identical copy are a
\* complete record with PSNR +infinity and SSIM 1.0
C24_IdenticalImages ==
    (Measured /\ Decodable(pair.original) /\ pair.enhanced = pair.original) =>
        /\ CompleteRecord(measured.result)
        /\ measured.result.psnr = PsnrInfinity
        /\ measured.result.ssim = SsimOne

(***************************************************************************)
(* Properties of the request parameters (specification SpecParams)         *)
(***************************************************************************)
\* C25: the confidence, nms_threshold and max_detections passed to the
\* detector are the form value when one is given, otherwise the value of
\* the query string when one is given, otherwise 0.5, 0.4 and 20
C25_FormThenQueryThenDefault ==
    params.passed # None =>
        LET request == params.request
        IN  /\ params.passed.confidence =
                  (IF ~request.confidence.none THEN request.confidence
                   ELSE IF ~request.confidence_query.none
                        THEN request.confidence_query ELSE Given(50))
            /\ params.passed.nms_threshold =
                  (IF ~request.nms_threshold.none THEN request.nms_threshold
                   ELSE IF ~request.nms_threshold_query.none
                        THEN request.nms_threshold_query ELSE Given(40))
            /\ params.passed.max_detections =
                  (IF ~request.max_detections.none THEN request.max_detections
                   ELSE IF ~request.max_detections_query.none
                        THEN request.max_detections_query ELSE Given(20))

(***************************************************************************)
(* Properties of the download status (specification SpecDownload)          *)
(***************************************************************************)
\* C26: the status reported for an id that download_model issued is
\* "downloading" while fewer than 30 seconds have passed since the time in
\* the id, "optimizing" from 30 to below 40 seconds and "completed" from 40
\* seconds on
C26_StatusByElapsed ==
    (download.reported # NoDict /\ download.response # NoDict) =>
        LET elapsed == download.now - download.issued
        IN  download.reported.status =
                (IF elapsed < 30 THEN "downloading"
                 ELSE IF elapsed < 40 THEN "optimizing"
                 ELSE "completed")

(***************************************************************************)
(* ImageEnhancementService called directly: load_models and enhance_image  *)
(* in any order, on the two service objects the routes construct.          *)
(* `run` holds, per object, the load_models calls that sleep and those     *)
(* that have returned, and the latest enhance_image call.                  *)
(***************************************************************************)
MaxLoads == 2

ServiceFiles ==
    { Upload("a", ".jpg", TRUE, ImgTargets),
      Upload("b", ".jpg", TRUE, ImgCorrupt) }

\* the uploads directory: every subset of ServiceFiles, written at time 0
ServiceDisks ==
    { [p \in {UploadPath(0, f) : f \in fs} |->
            (CHOOSE f \in fs : UploadPath(0, f) = p).content] :
        fs \in SUBSET ServiceFiles }

\* the paths a caller passes: the uploads, present or not
ServicePaths == {UploadPath(0, f) : f \in ServiceFiles}

\* __init__: self.is_loaded = False
InitService ==
    /\ model = [inst \in Instances |-> "None"]
    /\ is_loaded = [inst \in Instances |-> FALSE]
    /\ enh_is_loaded = [inst \in EnhInstances |-> FALSE]
    /\ clock = 0
    /\ disk \in ServiceDisks
    /\ writers = <<>>
    /\ req = [r \in Slots |-> IdleReq]
    /\ dets = <<>> /\ report = NoDict /\ summary = NoDict
    /\ buffer = <<>> /\ pair = NoDict /\ measured = NoDict
    /\ params = NoDict /\ download = NoDict
    /\ run = [sleeping |-> [inst \in EnhInstances |-> 0],
              returned |-> [inst \in EnhInstances |-> 0],
              call |-> NoDict]

\* load_models up to "await asyncio.sleep(1)"
ServiceLoadModels(inst) ==
    /\ run.sleeping[inst] + run.returned[inst] < MaxLoads
    /\ run' = [run EXCEPT !.sleeping[inst] = @ + 1]
    /\ UNCHANGED <<svars, dets, report, summary, buffer, pair, measured,
                 params, download>>

\* load_models after the sleep: self.is_loaded = True
ServiceLoadModelsResume(inst) ==
    /\ run.sleeping[inst] > 0
    /\ enh_is_loaded' = [enh_is_loaded EXCEPT ![inst] = TRUE]
    /\ run' = [run EXCEPT !.sleeping[inst] = @ - 1,
                          !.returned[inst] = @ + 1]
    /\ UNCHANGED <<model, is_loaded, clock, disk, writers, req, dets, report,
                 summary, buffer, pair, measured, params, download>>

\* enhance_image(image_path): the stages run are those of the image written
ServiceEnhanceImage(inst) ==
    \E image_path \in ServicePaths :
        LET out == enhance_image(enh_is_loaded[inst], disk, image_path)
        IN  /\ disk' = WriteAll(disk, out.writes)
            /\ writers' = NoteWriters(writers, out.writes, <<0, 0>>)
            /\ run' = [run EXCEPT !.call =
                        [inst |-> inst, image_path |-> image_path,
                         is_loaded |-> enh_is_loaded[inst],
                         raised |-> out.raised,
                         stages |-> IF out.writes = NoWrites THEN <<>>
                                    ELSE out.writes[1].content.stages,
                         written |-> {p \in DOMAIN disk' : p \notin DOMAIN disk
                                                       \/ disk'[p] # disk[p]}]]
            /\ UNCHANGED <<model, is_loaded, enh_is_loaded, clock, req, dets,
                         report, summary, buffer, pair, measured, params,
                         download>>

NextService ==
    \E inst \in EnhInstances :
        \/ ServiceLoadModels(inst)
        \/ ServiceLoadModelsResume(inst)
        \/ ServiceEnhanceImage(inst)

SpecService == InitService /\ [][NextService]_vars

(***************************************************************************)
(* Properties of the is_loaded flag (specification SpecService)            *)
(***************************************************************************)
\* the latest enhance_image call, made on an unloaded service, raised, ran
\* no stage and wrote no file
UnloadedCallRaises ==
    (run.call # NoDict /\ ~run.call.is_loaded) =>
        /\ run.call.raised
        /\ run.call.stages = <<>>
        /\ run.call.written = {}

\* is_loaded is True only once a load_models call has returned
LoadedOnlyByLoad ==
    \A inst \in EnhInstances : enh_is_loaded[inst] => run.returned[inst] > 0

\* C29: enhance_image on a service whose is_loaded is False raises without
\* running a stage or writing a file; is_loaded is False at first, True only
\* once load_models has completed, and never False again
C29_LoadedFlag ==
    /\ \A inst \in EnhInstances : ~enh_is_loaded[inst]
    /\ [](UnloadedCallRaises /\ LoadedOnlyByLoad)
    /\ [][\A inst \in EnhInstances :
            enh_is_loaded[inst] => enh_is_loaded'[inst]]_vars

\* enhance_image has been called on an unloaded service for an image that is
\* on the disk and decodable, while a load_models call was sleeping
C29_Witness ==
    /\ run.call # NoDict
    /\ ~run.call.is_loaded
    /\ run.call.image_path \in DOMAIN disk
    /\ disk[run.call.image_path].readable
    /\ run.sleeping[run.call.inst] > 0

(***************************************************************************)
(* Properties of the unified routes (specification SpecProcess)            *)
(***************************************************************************)
\* /process: detection was handed a path only after a successful
\* enhancement, and the path is the enhanced image's
ProcessDetectsEnhanced(r) ==
    req[r].detect_path # NonePath =>
        /\ Succeeded(req[r].enhancement_results)
        /\ req[r].detect_path =
                req[r].enhancement_results.enhanced_image_path

\* /process: a failed enhancement ends the request with a failure, no
\* detection having been invoked
ProcessEnhancementFailure(r) ==
    (/\ req[r].enhancement_results # NoDict
     /\ ~Succeeded(req[r].enhancement_results)) =>
        /\ req[r].pc = "done"
        /\ req[r].response.status = 500
        /\ ~req[r].response.body.success
        /\ req[r].detect_path = NonePath
        /\ req[r].detection_results = NoDict

\* /process: a failed detection after a successful enhancement
ProcessDetectionFailure(r) ==
    (/\ req[r].detection_results # NoDict
     /\ ~Succeeded(req[r].detection_results)) =>
        /\ req[r].pc = "done"
        /\ req[r].response.status = 200
        /\ req[r].response.body.success
        /\ req[r].response.body.enhanced_image_path =
                req[r].enhancement_results.enhanced_image_path
        /\ req[r].response.body.metrics = req[r].enhancement_results.metrics
        /\ "detections" \notin DOMAIN req[r].response.body

\* /process_unified: detect_threats has run only after enhance_image
\* returned, and it read the enhanced image
UnifiedDetectsEnhanced(r) ==
    req[r].detection_results # NoDict =>
        /\ req[r].enhancement_results # NoDict
        /\ req[r].enhancement_results.enhancement_status = "success"
        /\ req[r].detect_input =
                _prototype_enhancement(req[r].files[1].content)

\* /process_unified: enhance_image raising ends the request with a 500, no
\* detection having been invoked
UnifiedEnhancementFailure(r) ==
    (req[r].pc = "done" /\ req[r].enhancement_results = NoDict) =>
        /\ req[r].response.status \in {400, 500}
        /\ req[r].detection_results = NoDict

\* /process_unified: detect_threats coming back with an error
UnifiedDetectionFailure(r) ==
    (/\ req[r].pc = "done"
     /\ "error" \in DOMAIN req[r].detection_results) =>
        /\ req[r].response.status = 200
        /\ req[r].response.body.enhancement_status = "success"
        /\ req[r].response.body.enhanced_image = req[r].enhanced_path
        /\ req[r].enhanced_path # NonePath
        /\ req[r].calculate_metrics =>
                req[r].response.body.quality_metrics =
                    req[r].enhancement_results.quality_metrics
        /\ req[r].response.body.detections = <<>>

\* C27: in the unified routes detection runs only after a successful
\* enhancement and on the enhanced image; a failed enhancement gives a
\* failure response without any detection; a failed detection after a
\* successful enhancement still gives a success response that carries the
\* enhanced image path and its metrics and no detections
C27_DetectionAfterEnhancement ==
    \A r \in DOMAIN req :
        /\ req[r].route = "process" =>
            /\ ProcessDetectsEnhanced(r)
            /\ ProcessEnhancementFailure(r)
            /\ ProcessDetectionFailure(r)
        /\ req[r].route = "unified" =>
            /\ UnifiedDetectsEnhanced(r)
            /\ UnifiedEnhancementFailure(r)
            /\ UnifiedDetectionFailure(r)

\* a /process request whose detection failed after its enhancement succeeded
C27_Witness ==
    \E r \in DOMAIN req :
        /\ req[r].route = "process"
        /\ req[r].pc = "done"
        /\ Succeeded(req[r].enhancement_results)
        /\ req[r].detect_path # NonePath
        /\ ~Succeeded(req[r].detection_results)

(***************************************************************************)
(* Properties of the /detect route (specification SpecDetect)              *)
(***************************************************************************)
\* the request has loaded no model, written no file and run no detection;
\* it is the only request of the server
NothingDone(r) ==
    /\ \A inst \in Instances : ~is_loaded[inst] /\ model[inst] = "None"
    /\ disk = <<>>
    /\ writers = <<>>
    /\ req[r].upload_path = NonePath
    /\ req[r].detection_results = NoDict
    /\ req[r].detect_input = IdleReq.detect_input

Services ==
    ({"enhancement"} \X EnhInstances) \cup ({"detection"} \X Instances)

RECURSIVE LoadCountFrom(_, _)
LoadCountFrom(service, rs) ==
    IF rs = {} THEN 0
    ELSE LET r == CHOOSE x \in rs : TRUE
         IN  Len(SelectSeq(req[r].loads, LAMBDA s : s = service))
             + LoadCountFrom(service, rs \ {r})

\* the load_models calls made on the service object so far
LoadCount(service) == LoadCountFrom(service, DOMAIN req)

\* C30: whatever the interleaving of concurrent requests, load_models is
\* executed at most once on each service object
C30_LoadsOnce == \A service \in Services : LoadCount(service) <= 1

(***************************************************************************)
(* Properties of the average confidence (specification SpecAverage)        *)
(***************************************************************************)
\* the arithmetic sum of floats, in units
RECURSIVE ExactSum(_)
ExactSum(xs) ==
    IF xs = <<>> THEN <<>> ELSE BigAdd(Head(xs), ExactSum(Tail(xs)))

\* C23: for a non-empty list average_confidence is the arithmetic mean of
\* all confidences rounded to 2 decimal places, and lies between the
\* smallest and the largest confidence rounded to 2 decimal places
C23_AverageConfidence ==
    report # NoDict =>
        LET average == report.average_confidence
            rounded == {Round2(dets[i]) : i \in DOMAIN dets}
        IN  /\ NearestHundredth(average, ExactSum(dets), Len(dets))
            /\ \E low \in rounded : low <= average
            /\ \E high \in rounded : average <= high

====
